---------------------------- MODULE Spec2Model ----------------------------
(***************************************************************************)
(* A model of the NDC-to-location mapper (src/streamlit_app.py, class      *)
(* NDCToLocationMapper): the identifier normaliser, the registry index,    *)
(* the product resolver, the label document extractor and the result       *)
(* assembler.                                                              *)
(*                                                                         *)
(* A Python string is a sequence of one-character strings, a Python set a  *)
(* set, a Python list a sequence, a dict a function on its key set.        *)
(* A Python int (arbitrary precision) is its decimal digit sequence        *)
(* without leading zeros.                                                  *)
(***************************************************************************)
EXTENDS Naturals, Sequences, FiniteSets, TLC

VARIABLES
    ndc,            \* normalize_ndc_for_matching / validate_ndc_format: the argument
    ndc_step,       \* "new" | "validated" | "expanded"
    ndc_valid,      \* what validate_ndc_format(ndc) returned
    ndc_variants,   \* what normalize_ndc_for_matching(ndc) returned (as a set)
    id_number,      \* _generate_all_id_variants: the argument
    id_step,        \* "new" | "done"
    id_variants,    \* the list _generate_all_id_variants(id_number) returned
    id_raised,      \* whether the call raised
    fei_database,   \* self.fei_database: key -> establishment data
    duns_database,  \* self.duns_database: key -> establishment data
    database_loaded,\* self.database_loaded
    loaded_table,   \* the file the last load_fei_database_from_spreadsheet read
    lookups,        \* the lookup_fei/duns_establishment calls made, with their results
    pc,             \* process_single_ndc: "idle" | "dailymed" | "labeler" |
                    \* "openfda" | "found" | "done"
    query,          \* process_single_ndc: the argument
    normalized_ndc, \* normalize_ndc(query)
    queue,          \* the variants the running loop has still to request
    contacted,      \* the services a request was sent to
    failed,         \* the kinds of failure the product lookup met; forgotten
                    \* when a product is found
    found_record,   \* the DailyMed record whose labeler is being worked out
    product_info,   \* what get_ndc_info_comprehensive returned: {} is None
    spl_doc,        \* the label document the product's setid names
    fetches,        \* what the GETs of the label document answered
    scan_matches,   \* what find_fei_duns_matches_in_spl returned
    extracted,      \* the establishments of extract_establishments_with_fei
    results,        \* the rows of the DataFrame process_single_ndc returned
    raised          \* whether process_single_ndc raised

ndc_vars == <<ndc, ndc_step, ndc_valid, ndc_variants>>
id_vars == <<id_number, id_step, id_variants, id_raised>>
reg_vars == <<fei_database, duns_database, database_loaded, loaded_table, lookups>>
pipe_vars == <<pc, query, normalized_ndc, queue, contacted, failed, found_record, product_info,
               spl_doc, fetches, scan_matches, extracted, results, raised>>

vars == <<ndc_vars, id_vars, reg_vars, pipe_vars>>

-----------------------------------------------------------------------------
(* Strings *)

Digit == {"0", "1", "2", "3", "4", "5", "6", "7", "8", "9"}

IsDigit(c) == c \in Digit

IsDigitOrDash(c) == c \in Digit \/ c = "-"

NotDash(c) == c # "-"

AllDigits(s) == \A i \in 1..Len(s) : IsDigit(s[i])

\* s[a:b] of Python, 0 <= a, 0 <= b
Slice(s, a, b) ==
    LET hi == IF b > Len(s) THEN Len(s) ELSE b
    IN  IF a + 1 > hi THEN <<>> ELSE SubSeq(s, a + 1, hi)

\* s[a:] of Python, 0 <= a
From(s, a) == Slice(s, a, Len(s))

HasDash(s) == \E i \in 1..Len(s) : s[i] = "-"

\* s.startswith(p)
StartsWith(s, p) == Len(s) >= Len(p) /\ SubSeq(s, 1, Len(p)) = p

\* s.replace('-', '')
RemoveDashes(s) == SelectSeq(s, NotDash)

\* re.sub(r'[^\d]', '', s)
DigitsOnly(s) == SelectSeq(s, IsDigit)

\* re.sub(r'[^\d\-]', '', s)
DigitsAndDashes(s) == SelectSeq(s, IsDigitOrDash)

\* s.split('-')
RECURSIVE SplitDash(_)
SplitDash(s) ==
    IF ~HasDash(s) THEN <<s>>
    ELSE LET i == CHOOSE k \in 1..Len(s) :
                      s[k] = "-" /\ \A j \in 1..(k - 1) : s[j] # "-"
         IN  <<SubSeq(s, 1, i - 1)>> \o SplitDash(SubSeq(s, i + 1, Len(s)))

\* s.strip()
RECURSIVE LStrip(_)
LStrip(s) == IF s # <<>> /\ s[1] = " " THEN LStrip(Tail(s)) ELSE s

RECURSIVE RStrip(_)
RStrip(s) ==
    IF s # <<>> /\ s[Len(s)] = " " THEN RStrip(SubSeq(s, 1, Len(s) - 1)) ELSE s

Strip(s) == RStrip(LStrip(s))

\* s.lstrip('0')
RECURSIVE LStripZeros(_)
LStripZeros(s) == IF s # <<>> /\ s[1] = "0" THEN LStripZeros(Tail(s)) ELSE s

\* the strings of length n over the alphabet A
RECURSIVE SeqsOfLen(_, _)
SeqsOfLen(A, n) ==
    IF n = 0 THEN {<<>>}
    ELSE {Append(s, c) : s \in SeqsOfLen(A, n - 1), c \in A}

Dash == <<"-">>

\* a in b, for strings
IsSubstring(a, b) ==
    \E i \in 0..(Len(b) - Len(a)) : SubSeq(b, i + 1, i + Len(a)) = a

\* None, in a field that otherwise holds a string of characters
None == <<>>

-----------------------------------------------------------------------------
(* normalize_ndc_for_matching *)

\* r'^\d{4,5}-\d{3,4}-\d{1,2}$'
MatchesDashedPattern(s) ==
    LET parts == SplitDash(s)
    IN  /\ Len(parts) = 3
        /\ AllDigits(parts[1]) /\ Len(parts[1]) \in 4..5
        /\ AllDigits(parts[2]) /\ Len(parts[2]) \in 3..4
        /\ AllDigits(parts[3]) /\ Len(parts[3]) \in 1..2

\* r'^\d{10,11}$'
MatchesLongDigits(s) == AllDigits(s) /\ Len(s) \in 10..11

\* r'^\d{8,9}$'
MatchesShortDigits(s) == AllDigits(s) /\ Len(s) \in 8..9

normalize_ndc(n) ==
    LET clean_ndc == DigitsAndDashes(n)
        asis == HasDash(clean_ndc) /\ MatchesDashedPattern(clean_ndc)
        clean2 == IF HasDash(clean_ndc) THEN RemoveDashes(clean_ndc) ELSE clean_ndc
        digits_only ==
            IF Len(clean2) = 10 THEN <<"0">> \o clean2
            ELSE IF Len(clean2) = 8 THEN <<"0", "0", "0">> \o clean2
            ELSE IF Len(clean2) = 9 THEN <<"0", "0">> \o clean2
            ELSE clean2
    IN  IF asis THEN clean_ndc
        ELSE IF Len(digits_only) = 11
             THEN Slice(digits_only, 0, 5) \o Dash \o Slice(digits_only, 5, 9)
                      \o Dash \o From(digits_only, 9)
        ELSE IF Len(digits_only) = 10
             THEN Slice(digits_only, 0, 5) \o Dash \o Slice(digits_only, 5, 8)
                      \o Dash \o From(digits_only, 8)
        ELSE clean2

\* a plausible slip: the input is not normalised before it is refused
validate_ndc_patterns_only(n) ==
    LET clean_ndc == DigitsAndDashes(Strip(n))
    IN  \/ MatchesDashedPattern(clean_ndc)
        \/ MatchesLongDigits(clean_ndc)
        \/ MatchesShortDigits(clean_ndc)

validate_ndc_format(n) ==
    LET clean_ndc == DigitsAndDashes(Strip(n))
        normalized == normalize_ndc(clean_ndc)
    IN  \/ MatchesDashedPattern(clean_ndc)
        \/ MatchesLongDigits(clean_ndc)
        \/ MatchesShortDigits(clean_ndc)
        \* the try block returns whatever the normalised form matches
        \/ MatchesDashedPattern(normalized)
        \/ MatchesLongDigits(normalized)

\* the 5-4-2 <-> 5-3-2 conversions of a dashed NDC
SegmentConversions(clean_ndc) ==
    IF ~HasDash(clean_ndc) THEN {}
    ELSE LET parts == SplitDash(clean_ndc)
         IN  IF Len(parts) # 3 THEN {}
             ELSE LET labeler == parts[1]
                      product == parts[2]
                      package == parts[3]
                  IN  IF /\ Len(labeler) = 5 /\ Len(product) = 4
                         /\ Len(package) = 2 /\ StartsWith(product, <<"0">>)
                      THEN LET product_unpadded == From(product, 1)
                           IN  { labeler \o Dash \o product_unpadded \o Dash \o package,
                                 labeler \o product_unpadded \o package,
                                 labeler \o Dash \o product_unpadded,
                                 labeler \o product_unpadded }
                      ELSE IF Len(labeler) = 5 /\ Len(product) = 3 /\ Len(package) = 2
                      THEN LET product_padded == <<"0">> \o product
                           IN  { labeler \o Dash \o product_padded \o Dash \o package,
                                 labeler \o product_padded \o package,
                                 labeler \o Dash \o product_padded,
                                 labeler \o product_padded }
                      ELSE {}

\* a plausible slip: the length versions are left out
LengthVersionsNone(digits_only) == {}

\* the 8/9/10/11-digit versions of the digits
LengthVersions(digits_only) ==
    IF Len(digits_only) = 8
    THEN { <<"0", "0", "0">> \o digits_only, <<"0", "0">> \o digits_only,
           <<"0">> \o digits_only }
    ELSE IF Len(digits_only) = 9
    THEN { <<"0", "0">> \o digits_only, <<"0">> \o digits_only, From(digits_only, 1) }
    ELSE IF Len(digits_only) = 10
    THEN { <<"0">> \o digits_only, From(digits_only, 1), From(digits_only, 2) }
    ELSE IF Len(digits_only) = 11
    THEN { From(digits_only, 1), From(digits_only, 2), From(digits_only, 3) }
    ELSE {}

\* a plausible slip: the digits themselves are not added
BaseDigitsNone(digits_only) == {}

\* variants.add(digits_only)
BaseDigits(digits_only) == {digits_only}

\* the dashed form of one variant, chosen by its length alone
FormatVariant(variant) ==
    IF Len(variant) = 11
    THEN { Slice(variant, 0, 5) \o Dash \o Slice(variant, 5, 9) \o Dash \o From(variant, 9) }
    ELSE IF Len(variant) = 10
    THEN { Slice(variant, 0, 5) \o Dash \o Slice(variant, 5, 8) \o Dash \o From(variant, 8) }
    ELSE IF Len(variant) = 9
    THEN { Slice(variant, 0, 4) \o Dash \o Slice(variant, 4, 7) \o Dash \o From(variant, 7) }
    ELSE IF Len(variant) = 8
    THEN { Slice(variant, 0, 4) \o Dash \o Slice(variant, 4, 6) \o Dash \o From(variant, 6) }
    ELSE {}

FormattedVariants(variants) == UNION { FormatVariant(v) : v \in variants }

\* labeler-product without the package, with and without the dash
BaseVariants(formatted_variants) ==
    UNION { LET parts == SplitDash(v)
            IN  IF HasDash(v) /\ Len(parts) = 3
                THEN { parts[1] \o Dash \o parts[2], parts[1] \o parts[2] }
                ELSE {}
            : v \in formatted_variants }

normalize_ndc_for_matching(n) ==
    LET clean_ndc == DigitsAndDashes(n)
        digits_only == RemoveDashes(clean_ndc)
        variants == BaseDigits(digits_only) \cup SegmentConversions(clean_ndc)
                        \cup LengthVersions(digits_only)
        formatted_variants == FormattedVariants(variants)
        all_variants == variants \cup formatted_variants
                            \cup BaseVariants(formatted_variants)
    IN  { v \in all_variants : v # <<>> /\ Len(v) >= 6 }

\* a plausible slip: the operation is taken whatever product it is declared for
ndc_found_in_any_operation(ndc_matches, target_variants) == TRUE

\* extract_ndc_specific_operations: does some NDC code of the performance
\* element share a variant with the target's variants
ndc_found_in_operation(ndc_matches, target_variants) ==
    \E i \in 1..Len(ndc_matches) :
        \E v \in normalize_ndc_for_matching(Strip(ndc_matches[i])) :
            v \in target_variants

-----------------------------------------------------------------------------
(* _generate_all_id_variants *)

Range(s) == { s[i] : i \in 1..Len(s) }

\* d left-padded with zeros to n characters, never cut: f"{x:0{n}d}"
RECURSIVE ZeroPad(_, _)
ZeroPad(d, n) == IF Len(d) >= n THEN d ELSE ZeroPad(<<"0">> \o d, n)

\* int(clean_id): ValueError on the empty string; the value as str() prints it
ParseInt(clean_id) ==
    IF clean_id = <<>> \/ ~AllDigits(clean_id)
    THEN [error |-> "ValueError", value |-> <<>>]
    ELSE [error |-> "none",
          value |-> IF LStripZeros(clean_id) = <<>> THEN <<"0">>
                    ELSE LStripZeros(clean_id)]

PaddingWidths == <<8, 9, 10, 11, 12, 13, 14, 15>>

\* the try block: the padded versions and str(int), nothing on ValueError
NumericVariants(clean_id) ==
    LET r == ParseInt(clean_id)
    IN  IF r.error = "none"
        THEN [raised |-> FALSE,
              items |-> [i \in 1..Len(PaddingWidths) |-> ZeroPad(r.value, PaddingWidths[i])]
                            \o <<r.value>>]
        ELSE IF r.error = "ValueError"
        THEN [raised |-> FALSE, items |-> <<>>]
        ELSE [raised |-> TRUE, items |-> <<>>]

\* numbers stored with or without leading zeros
LeadingZeroVariants(clean_id) ==
    IF StartsWith(clean_id, <<"0", "0">>)
    THEN <<From(clean_id, 1), From(clean_id, 2)>>
    ELSE IF StartsWith(clean_id, <<"0">>)
    THEN <<From(clean_id, 1)>>
    ELSE <<>>

NotEmpty(v) == v # <<>>

\* a plausible slip: the empty strings are kept
KeepAll(variants) == variants

\* [v for v in variants if v]
DropEmpty(variants) == SelectSeq(variants, NotEmpty)

\* list(dict.fromkeys(l)): the first occurrence of each member, in order
RECURSIVE Dedup(_)
Dedup(l) ==
    IF l = <<>> THEN <<>>
    ELSE LET init == Dedup(SubSeq(l, 1, Len(l) - 1))
         IN  IF l[Len(l)] \in Range(init) THEN init ELSE Append(init, l[Len(l)])

\* the original formats: trimmed, digits only, digits without leading zeros
OriginalFormats(id) ==
    <<Strip(id), DigitsOnly(id), LStripZeros(DigitsOnly(id))>>

generate_all_id_variants_call(id) ==
    LET clean_id == DigitsOnly(id)
        numeric == NumericVariants(clean_id)
    IN  [raised |-> numeric.raised,
         value |-> IF numeric.raised THEN <<>>
                   ELSE Dedup(DropEmpty(OriginalFormats(id) \o numeric.items
                                            \o LeadingZeroVariants(clean_id)))]

generate_all_id_variants(id) == generate_all_id_variants_call(id).value

-----------------------------------------------------------------------------
(* The registry: load_fei_database_from_spreadsheet and the lookups *)

\* an empty dict
EmptyDict == [k \in {} |-> {}]

\* a plausible slip: a key that is already there keeps its data
SetKeysIfAbsent(d, keys, data) ==
    [k \in DOMAIN d \cup keys |-> IF k \in DOMAIN d THEN d[k] ELSE data]

\* d[key] = data for every key of keys
SetKeys(d, keys, data) ==
    [k \in DOMAIN d \cup keys |-> IF k \in keys THEN data ELSE d[k]]

\* last_part.upper() contains one of the country names; the last parts a
\* registry address ends with are taken from this list
CountryOf(last_part) ==
    IF last_part \in {"USA", "MA USA", "US"} THEN "USA"
    ELSE IF last_part \in {"GERMANY", "DEUTSCHLAND"} THEN "Germany"
    ELSE IF last_part \in {"SWITZERLAND", "SCHWEIZ"} THEN "Switzerland"
    ELSE IF last_part \in {"SINGAPORE"} THEN "Singapore"
    ELSE last_part

\* an address is the list of its comma-separated parts, each stripped
parse_address(lines) ==
    [establishment_name |-> lines[1],
     address_line_1 |-> IF Len(lines) >= 2 THEN lines[2] ELSE lines[1],
     city |-> IF Len(lines) >= 3 THEN lines[Len(lines) - 1] ELSE "Unknown",
     state_province |-> IF Len(lines) >= 4 THEN lines[Len(lines)] ELSE "Unknown",
     country |-> IF Len(lines) >= 4 THEN CountryOf(lines[Len(lines)]) ELSE "Unknown"]

\* the words of the column names
FEI == <<"f","e","i">>
DUNS == <<"d","u","n","s">>
NUMBER == <<"n","u","m","b","e","r">>
ADDRESS == <<"a","d","d","r","e","s","s">>
FIRM == <<"f","i","r","m">>
NAME == <<"n","a","m","e">>

UpperLetters ==
    <<"A","B","C","D","E","F","G","H","I","J","K","L","M",
      "N","O","P","Q","R","S","T","U","V","W","X","Y","Z">>

LowerLetters ==
    <<"a","b","c","d","e","f","g","h","i","j","k","l","m",
      "n","o","p","q","r","s","t","u","v","w","x","y","z">>

LowerChar(c) ==
    IF \E i \in 1..Len(UpperLetters) : UpperLetters[i] = c
    THEN LowerLetters[CHOOSE i \in 1..Len(UpperLetters) : UpperLetters[i] = c]
    ELSE c

\* a plausible slip: the header is compared as it is written
SameCase(s) == s

\* s.lower()
ToLower(s) == [i \in 1..Len(s) |-> LowerChar(s[i])]

NotUnderscoreOrSpace(c) == c \notin {"_", " "}

\* col.lower().strip().replace('_', '').replace(' ', '')
ColLower(col) == SelectSeq(Strip(ToLower(col)), NotUnderscoreOrSpace)

\* a plausible slip: one word of the name is enough
ColumnRoleLoose(col) ==
    LET col_lower == ColLower(col)
    IN  IF IsSubstring(FEI, col_lower) \/ IsSubstring(NUMBER, col_lower) THEN "fei"
        ELSE IF IsSubstring(DUNS, col_lower) THEN "duns"
        ELSE IF IsSubstring(ADDRESS, col_lower) THEN "address"
        ELSE IF IsSubstring(FIRM, col_lower) \/ IsSubstring(NAME, col_lower)
        THEN "firm_name"
        ELSE "none"

\* the role the elif chain gives to a header, "none" when no branch is taken
ColumnRole(col) ==
    LET col_lower == ColLower(col)
    IN  IF (IsSubstring(FEI, col_lower) /\ IsSubstring(NUMBER, col_lower))
            \/ col_lower = FEI \o NUMBER
        THEN "fei"
        ELSE IF (IsSubstring(DUNS, col_lower) /\ IsSubstring(NUMBER, col_lower))
                 \/ col_lower = DUNS \o NUMBER
        THEN "duns"
        ELSE IF IsSubstring(ADDRESS, col_lower) THEN "address"
        ELSE IF (IsSubstring(FIRM, col_lower) /\ IsSubstring(NAME, col_lower))
                 \/ col_lower = FIRM \o NAME
        THEN "firm_name"
        ELSE "none"

\* the name kept for a role: col.strip() of the last header with the role,
\* None when no header has it
DiscoveredColumn(columns, role) ==
    IF \E i \in 1..Len(columns) : ColumnRole(columns[i].name) = role
    THEN Strip(columns[CHOOSE i \in 1..Len(columns) :
                   /\ ColumnRole(columns[i].name) = role
                   /\ \A j \in (i + 1)..Len(columns) :
                          ColumnRole(columns[j].name) # role].name)
    ELSE None

\* the four names of the loop over df.columns
DiscoverColumns(columns) ==
    [fei_col |-> DiscoveredColumn(columns, "fei"),
     duns_col |-> DiscoveredColumn(columns, "duns"),
     address_col |-> DiscoveredColumn(columns, "address"),
     firm_name_col |-> DiscoveredColumn(columns, "firm_name")]

\* what row[col] reads for a name the discovery kept: the data of the column
\* of that name, "KeyError" when the frame has no column of that name, "none"
\* for None
ColumnRead(columns, col) ==
    IF col = None THEN "none"
    ELSE IF \E i \in 1..Len(columns) : columns[i].name = col
    THEN columns[CHOOSE i \in 1..Len(columns) : columns[i].name = col].data
    ELSE "KeyError"

\* what the row loop reads for each of the four names
ColumnReads(columns) ==
    LET cols == DiscoverColumns(columns)
    IN  [fei |-> ColumnRead(columns, cols.fei_col),
         duns |-> ColumnRead(columns, cols.duns_col),
         address |-> ColumnRead(columns, cols.address_col),
         firm_name |-> ColumnRead(columns, cols.firm_name_col)]

\* the firm name of a row: 'Unknown' without the column or for an empty cell
FirmNameOf(reads, row) ==
    IF reads.firm_name = "none" THEN "Unknown"
    ELSE IF row[reads.firm_name] = "" THEN "Unknown"
    ELSE row[reads.firm_name]

EstablishmentData(reads, row, method) ==
    LET address_parts == parse_address(row[reads.address])
    IN  [establishment_name |-> address_parts.establishment_name,
         firm_name |-> FirmNameOf(reads, row),
         address_line_1 |-> address_parts.address_line_1,
         city |-> address_parts.city,
         state_province |-> address_parts.state_province,
         country |-> address_parts.country,
         search_method |-> method]

MinFeiDigits == 7
MinDunsDigits == 8

\* a plausible slip: the threshold itself is refused
HasMoreDigits(number, least) == Len(DigitsOnly(number)) > least

\* len(re.sub(r'[^\d]', '', number)) >= least
HasDigits(number, least) == Len(DigitsOnly(number)) >= least

\* rows 143-172: the FEI number of one row
StoreFei(db, reads, row) ==
    IF reads.fei = "none" THEN db
    ELSE LET fei_number == Strip(row[reads.fei])
         IN  IF fei_number # <<>> /\ HasDigits(fei_number, MinFeiDigits)
             THEN SetKeys(db, Range(generate_all_id_variants(fei_number)),
                          EstablishmentData(reads, row, "spreadsheet_fei_database")
                              @@ [original_fei |-> fei_number])
             ELSE db

\* rows 175-205: the DUNS number of one row
StoreDuns(db, reads, row) ==
    IF reads.duns = "none" THEN db
    ELSE LET duns_number == Strip(row[reads.duns])
         IN  IF duns_number # <<>> /\ HasDigits(duns_number, MinDunsDigits)
             THEN SetKeys(db, Range(generate_all_id_variants(duns_number)),
                          EstablishmentData(reads, row, "spreadsheet_duns_database")
                              @@ [original_duns |-> duns_number])
             ELSE db

\* one pass of the row loop: a row with an empty address is skipped, and a
\* KeyError ends the row where it is raised, the address first, then the firm
\* name, the FEI (nothing is stored yet) and the DUNS (the FEI is stored)
LoadRow(dbs, reads, row) ==
    IF reads.address = "KeyError" THEN dbs
    ELSE IF row[reads.address] = <<>> THEN dbs
    ELSE IF reads.firm_name = "KeyError" THEN dbs
    ELSE IF reads.fei = "KeyError" THEN dbs
    ELSE IF reads.duns = "KeyError"
    THEN [fei |-> StoreFei(dbs.fei, reads, row), duns |-> dbs.duns]
    ELSE [fei |-> StoreFei(dbs.fei, reads, row),
          duns |-> StoreDuns(dbs.duns, reads, row)]

\* the row loop: the dicts after a row are the dicts the next row finds; a
\* row that stores nothing leaves them as they are
RECURSIVE LoadRows(_, _, _)
LoadRows(dbs, reads, rows) ==
    IF rows = <<>> THEN dbs
    ELSE LET next == LoadRow(dbs, reads, Head(rows))
         IN  IF next = dbs THEN LoadRows(dbs, reads, Tail(rows))
             ELSE LoadRows(next, reads, Tail(rows))

\* load_fei_database_from_spreadsheet: the two dicts after the call
LoadSpreadsheet(dbs, table) ==
    IF ~table.readable THEN dbs
    ELSE LET reads == ColumnReads(table.columns)
         IN  IF reads.fei = "none" /\ reads.duns = "none" THEN dbs
             ELSE IF reads.address = "none" THEN dbs
             ELSE LoadRows(dbs, reads, table.rows)

\* the first variant that is a key, with its data and the key echoed; {} is None
FirstHit(db, variants, key_field) ==
    IF \E i \in 1..Len(variants) : variants[i] \in DOMAIN db
    THEN LET i == CHOOSE k \in 1..Len(variants) :
                      /\ variants[k] \in DOMAIN db
                      /\ \A j \in 1..(k - 1) : variants[j] \notin DOMAIN db
         IN  { (key_field :> variants[i]) @@ db[variants[i]] }
    ELSE {}

\* a plausible slip: the number is looked up as it is written only
lookup_fei_as_written(db, fei_number) == FirstHit(db, <<fei_number>>, "fei_number")

lookup_fei_establishment(db, fei_number) ==
    FirstHit(db, generate_all_id_variants(fei_number), "fei_number")

lookup_duns_establishment(db, duns_number) ==
    FirstHit(db, generate_all_id_variants(duns_number), "duns_number")

\* a plausible slip: the key is written into the stored record
StoredAfterLookupInPlace(db, number, key_field) ==
    LET hit == FirstHit(db, generate_all_id_variants(number), key_field)
    IN  IF hit = {} THEN db
        ELSE LET establishment_info == CHOOSE info \in hit : TRUE
             IN  [db EXCEPT ![establishment_info[key_field]] = establishment_info]

\* the dict after a lookup: the key is written into a copy of the hit, the
\* stored record is not touched
StoredAfterLookup(db, number, key_field) == db

\* the dict after the lookups of the matches of one kind
RECURSIVE StoredAfterMatches(_, _, _, _)
StoredAfterMatches(db, found, match_type, key_field) ==
    IF found = <<>> THEN db
    ELSE StoredAfterMatches(
             IF Head(found).match_type = match_type
             THEN StoredAfterLookup(db, Head(found).fei_number, key_field)
             ELSE db,
             Tail(found), match_type, key_field)

-----------------------------------------------------------------------------
(* The label document and the extractor *)

\* A label document, as the extractor reads it:
\*   wellformed  whether ET.fromstring parses it
\*   ids         the extension attributes of the elements whose tag ends in
\*               'id', in document order
\*   entities    the <assignedEntity> blocks: the extensions written in the
\*               block, its first <name>, its <performance> elements (code of
\*               the first <code> with a displayName, the NDC-system codes)
\*               and its <businessOperation> elements (the displayName as
\*               written, the operation codes in its text)
\*   author      the organization of the <author> element: name and extensions
\*   org_name    the first <name> that ends in Inc, LLC, Corp, Company or Ltd
\*   names       every organization name of the document

\* operation_codes, in the order of the dict
OperationCodes ==
    << <<"C43360", "Manufacture">>, <<"C82401", "Manufacture">>,
       <<"C25391", "Analysis">>, <<"C84731", "Pack">>, <<"C25392", "Label">>,
       <<"C48482", "Repack">>, <<"C73606", "Relabel">>, <<"C84732", "Sterilize">>,
       <<"C25394", "API Manufacture">>, <<"C43359", "Manufacture">> >>

IsOperationCode(code) == \E i \in 1..Len(OperationCodes) : OperationCodes[i][1] = code

OperationOfCode(code) ==
    OperationCodes[CHOOSE i \in 1..Len(OperationCodes) : OperationCodes[i][1] = code][2]

\* operation_names, in the order of the dict
OperationNames ==
    << << <<"m","a","n","u","f","a","c","t","u","r","e">>, "Manufacture" >>,
       << <<"a","p","i"," ","m","a","n","u","f","a","c","t","u","r","e">>, "API Manufacture" >>,
       << <<"a","n","a","l","y","s","i","s">>, "Analysis" >>,
       << <<"l","a","b","e","l">>, "Label" >>,
       << <<"p","a","c","k">>, "Pack" >>,
       << <<"r","e","p","a","c","k">>, "Repack" >>,
       << <<"r","e","l","a","b","e","l">>, "Relabel" >>,
       << <<"s","t","e","r","i","l","i","z","e">>, "Sterilize" >> >>

\* a plausible slip: both labels stay
KeepManufacture(operations) == operations

\* "Manufacture" goes when "API Manufacture" is present
DropManufacture(operations) ==
    IF "API Manufacture" \in Range(operations) /\ "Manufacture" \in Range(operations)
    THEN SelectSeq(operations, LAMBDA o : o # "Manufacture")
    ELSE operations

\* the operation of one <performance> element, "" when there is none
PerformanceOperation(perf) ==
    IF perf.code # "" /\ IsOperationCode(perf.code) THEN OperationOfCode(perf.code) ELSE ""

RECURSIVE NdcOperations(_, _)
NdcOperations(perfs, target_variants) ==
    IF perfs = <<>> THEN <<>>
    ELSE LET before == NdcOperations(SubSeq(perfs, 1, Len(perfs) - 1), target_variants)
             perf == perfs[Len(perfs)]
             operation_found == PerformanceOperation(perf)
         IN  IF /\ operation_found # ""
                /\ ndc_found_in_operation(perf.ndcs, target_variants)
                /\ operation_found \notin Range(before)
             THEN Append(before, operation_found)
             ELSE before

extract_ndc_specific_operations(section, target_ndc) ==
    DropManufacture(NdcOperations(section.perfs, normalize_ndc_for_matching(target_ndc)))

\* the operation a displayName names, "" when none
DisplayNameOperation(display_name) ==
    IF display_name = <<>> THEN ""
    ELSE IF /\ IsSubstring(<<"a","p","i">>, display_name)
            /\ IsSubstring(<<"m","a","n","u","f","a","c","t","u","r","e">>, display_name)
    THEN "API Manufacture"
    ELSE IF \E i \in 1..Len(OperationNames) :
                /\ IsSubstring(OperationNames[i][1], display_name)
                /\ OperationNames[i][2] # "API Manufacture"
    THEN OperationNames[CHOOSE i \in 1..Len(OperationNames) :
             /\ IsSubstring(OperationNames[i][1], display_name)
             /\ OperationNames[i][2] # "API Manufacture"
             /\ \A j \in 1..(i - 1) :
                    ~(/\ IsSubstring(OperationNames[j][1], display_name)
                      /\ OperationNames[j][2] # "API Manufacture")][2]
    ELSE ""

\* the first operation code, in dict order, that the text contains
CodeOperation(codes) ==
    IF \E i \in 1..Len(OperationCodes) : OperationCodes[i][1] \in codes
    THEN OperationCodes[CHOOSE i \in 1..Len(OperationCodes) :
             /\ OperationCodes[i][1] \in codes
             /\ \A j \in 1..(i - 1) : OperationCodes[j][1] \notin codes][2]
    ELSE ""

\* the operation of one <businessOperation> element: by its displayName in
\* lower case, else by the first operation code its text contains
BusinessOperation(bus_op) ==
    IF DisplayNameOperation(ToLower(bus_op.display_name)) # ""
    THEN DisplayNameOperation(ToLower(bus_op.display_name))
    ELSE CodeOperation(bus_op.codes)

RECURSIVE GeneralOperations(_)
GeneralOperations(busops) ==
    IF busops = <<>> THEN <<>>
    ELSE LET before == GeneralOperations(SubSeq(busops, 1, Len(busops) - 1))
             operation_found == BusinessOperation(busops[Len(busops)])
         IN  IF operation_found # "" /\ operation_found \notin Range(before)
             THEN Append(before, operation_found)
             ELSE before

extract_general_operations(section) == DropManufacture(GeneralOperations(section.busops))

\* match.fei_number in section
NumberInSection(number, section) ==
    \/ \E i \in 1..Len(section.extensions) : IsSubstring(number, section.extensions[i])
    \/ \E i \in 1..Len(section.perfs) :
           \E j \in 1..Len(section.perfs[i].ndcs) :
               IsSubstring(number, section.perfs[i].ndcs[j])

\* dict.get(key, default)
Get(d, key, default) == IF key \in DOMAIN d THEN d[key] ELSE default

\* what a GET of the label document answers
FetchOutcomes == {"200", "non200", "exception"}

\* a plausible slip: the DUNS mapping is tried whatever the FEI mapping gave
MatchOfExtensionInBoth(extension, fei_db, duns_db) ==
    LET variants == generate_all_id_variants(extension)
        clean_extension == DigitsOnly(extension)
    IN  (IF \E i \in 1..Len(variants) : variants[i] \in DOMAIN fei_db
         THEN << [fei_number |-> clean_extension, match_type |-> "FEI_NUMBER",
                  xml_location |-> "/id", establishment_name |-> "Unknown"] >>
         ELSE <<>>)
        \o (IF \E i \in 1..Len(variants) : variants[i] \in DOMAIN duns_db
            THEN << [fei_number |-> clean_extension, match_type |-> "DUNS_NUMBER",
                     xml_location |-> "/id", establishment_name |-> "Unknown"] >>
            ELSE <<>>)

\* the FEIMatch of one id element: the FEI mapping first, then the DUNS mapping
MatchOfExtension(extension, fei_db, duns_db) ==
    LET variants == generate_all_id_variants(extension)
        clean_extension == DigitsOnly(extension)
    IN  IF \E i \in 1..Len(variants) : variants[i] \in DOMAIN fei_db
        THEN << [fei_number |-> clean_extension, match_type |-> "FEI_NUMBER",
                 xml_location |-> "/id", establishment_name |-> "Unknown"] >>
        ELSE IF \E i \in 1..Len(variants) : variants[i] \in DOMAIN duns_db
        THEN << [fei_number |-> clean_extension, match_type |-> "DUNS_NUMBER",
                 xml_location |-> "/id", establishment_name |-> "Unknown"] >>
        ELSE <<>>

RECURSIVE ScanIds(_, _, _)
ScanIds(ids, fei_db, duns_db) ==
    IF ids = <<>> THEN <<>>
    ELSE (IF Head(ids) # <<>> THEN MatchOfExtension(Head(ids), fei_db, duns_db) ELSE <<>>)
             \o ScanIds(Tail(ids), fei_db, duns_db)

MinRegexDigits == 7
MaxRegexDigits == 15

\* r'<id\s+([^>]*extension="(\d{7,15})"[^>]*)>'
MatchesIdPattern(extension) ==
    AllDigits(extension) /\ Len(extension) \in MinRegexDigits..MaxRegexDigits

\* the FEIMatch the regex scan makes of the id element on line line_num
RegexMatchOfExtension(extension, line_num, fei_db, duns_db) ==
    LET found == MatchOfExtension(extension, fei_db, duns_db)
    IN  IF found = <<>> THEN <<>>
        ELSE << [fei_number |-> found[1].fei_number,
                 match_type |-> found[1].match_type,
                 xml_location |-> <<"Line", line_num, "(regex-based)">>,
                 establishment_name |-> "Unknown"] >>

RECURSIVE RegexScanIds(_, _, _, _)
RegexScanIds(ids, line_num, fei_db, duns_db) ==
    IF ids = <<>> THEN <<>>
    ELSE (IF MatchesIdPattern(Head(ids))
          THEN RegexMatchOfExtension(Head(ids), line_num, fei_db, duns_db)
          ELSE <<>>)
             \o RegexScanIds(Tail(ids), line_num + 1, fei_db, duns_db)

\* _find_matches_with_regex over the raw text, one id element on a line
find_matches_with_regex(doc, fei_db, duns_db) == RegexScanIds(doc.ids, 1, fei_db, duns_db)

\* find_fei_duns_matches_in_spl.  A document that does not parse raises
\* ParseError; the handler names ET.XMLSyntaxError, which xml.etree does not
\* have, so the AttributeError reaches the outer handler and the list is empty.
find_fei_duns_matches_in_spl(fetch, doc, fei_db, duns_db) ==
    IF fetch # "200" THEN <<>>
    ELSE IF ~doc.wellformed THEN <<>>
    ELSE ScanIds(doc.ids, fei_db, duns_db)

\* the operations of the first <assignedEntity> block that holds the number;
\* {} when the establishment is not included
SectionOperations(number, sections, target_ndc) ==
    IF \E i \in 1..Len(sections) : NumberInSection(number, sections[i])
    THEN LET section == sections[CHOOSE i \in 1..Len(sections) :
                            /\ NumberInSection(number, sections[i])
                            /\ \A j \in 1..(i - 1) : ~NumberInSection(number, sections[j])]
             ops == extract_ndc_specific_operations(section, target_ndc)
             general_ops == extract_general_operations(section)
         IN  IF ops # <<>>
             THEN { [operations |-> ops, quotes |-> "ndc_specific"] }
             ELSE IF section.busops # <<>> /\ general_ops # <<>>
             THEN { [operations |-> general_ops, quotes |-> "general"] }
             ELSE {}
    ELSE {}

\* the loop over the matches: a number is processed once
RECURSIVE AssembleMatches(_, _, _, _, _, _)
AssembleMatches(matches, processed_numbers, sections, target_ndc, fei_db, duns_db) ==
    IF matches = <<>> THEN <<>>
    ELSE LET match == Head(matches)
             rest == AssembleMatches(Tail(matches),
                                     processed_numbers \cup {match.fei_number},
                                     sections, target_ndc, fei_db, duns_db)
             establishment_info ==
                 IF match.match_type = "FEI_NUMBER"
                 THEN lookup_fei_establishment(fei_db, match.fei_number)
                 ELSE lookup_duns_establishment(duns_db, match.fei_number)
             found == SectionOperations(match.fei_number, sections, target_ndc)
         IN  IF match.fei_number \in processed_numbers THEN rest
             ELSE IF establishment_info = {} \/ found = {} THEN rest
             ELSE << [xml_location |-> match.xml_location,
                      match_type |-> match.match_type,
                      operations |-> (CHOOSE f \in found : TRUE).operations,
                      quotes |-> (CHOOSE f \in found : TRUE).quotes]
                         @@ (CHOOSE e \in establishment_info : TRUE) >> \o rest

\* a plausible slip: the body stands outside the try
FetchOutcomeUncaught(fetch) ==
    IF fetch = "200" THEN "proceed"
    ELSE IF fetch = "exception" THEN "raise"
    ELSE "return_empty"

\* the GET of extract_establishments_with_fei inside its try: a status other
\* than 200 returns the empty lists, and so does the handler of an exception
FetchOutcome(fetch) == IF fetch = "200" THEN "proceed" ELSE "return_empty"

\* extract_establishments_with_fei: fetch is the answer to its own GET, scan
\* the answer to the GET of find_fei_duns_matches_in_spl
extract_establishments_with_fei(fetch, scan, doc, target_ndc, fei_db, duns_db) ==
    IF FetchOutcome(fetch) # "proceed" THEN <<>>
    ELSE AssembleMatches(find_fei_duns_matches_in_spl(scan, doc, fei_db, duns_db),
                         {}, doc.entities, target_ndc, fei_db, duns_db)

MinLabelerDunsDigits == 8

\* extract_labeler_from_spl: the labeler's name and DUNS
extract_labeler_from_spl(fetch, doc) ==
    IF fetch # "200" THEN [name |-> "Unknown", duns |-> None]
    ELSE IF ~doc.wellformed THEN [name |-> "Unknown", duns |-> None]
    ELSE IF doc.author.name # ""
    THEN [name |-> doc.author.name,
          duns |-> LET long == SelectSeq(doc.author.extensions,
                                         LAMBDA e : Len(DigitsOnly(e)) >= MinLabelerDunsDigits)
                   IN  IF long = <<>> THEN None ELSE DigitsOnly(long[1])]
    ELSE IF doc.org_name # "" THEN [name |-> doc.org_name, duns |-> None]
    ELSE [name |-> "Unknown", duns |-> None]

find_labeler_info_in_spl(fetch, doc, labeler_name, duns_db) ==
    LET labeler == extract_labeler_from_spl(fetch, doc)
        name == IF labeler.name # "Unknown" THEN labeler.name ELSE labeler_name
        duns_info == IF labeler.duns # None
                     THEN lookup_duns_establishment(duns_db, labeler.duns)
                     ELSE {}
    IN  IF duns_info # {}
        THEN LET d == CHOOSE x \in duns_info : TRUE
             IN  [establishment_name |-> d.establishment_name,
                  firm_name |-> d.firm_name,
                  address_line_1 |-> d.address_line_1,
                  city |-> d.city,
                  state_province |-> d.state_province,
                  country |-> d.country,
                  search_method |-> "labeler_duns_database",
                  duns_number |-> labeler.duns,
                  match_type |-> "LABELER"]
        ELSE [establishment_name |-> name,
              firm_name |-> name,
              address_line_1 |-> "Address not available in official documentation",
              city |-> "Unknown",
              state_province |-> "Unknown",
              country |-> "Unknown",
              search_method |-> "labeler_name_from_spl",
              duns_number |-> labeler.duns,
              match_type |-> "LABELER"]

\* a plausible slip: no labeler entry
create_establishments_without_labeler(product, establishments_info, labeler_fetch, doc, duns_db) ==
    IF product.spl_id = "" THEN <<>> ELSE establishments_info

\* a plausible slip: no labeler entry unless the label document was fetched
create_establishments_when_fetched(product, establishments_info, labeler_fetch, doc, duns_db) ==
    IF product.spl_id = "" THEN <<>>
    ELSE IF establishments_info = <<>>
    THEN (IF labeler_fetch = "200"
          THEN << find_labeler_info_in_spl(labeler_fetch, doc, product.labeler_name, duns_db) >>
          ELSE <<>>)
    ELSE establishments_info

\* create_establishments_from_spl: the extractor's establishments, or the
\* labeler entry when there are none
create_establishments_from_spl(product, establishments_info, labeler_fetch, doc, duns_db) ==
    IF product.spl_id = "" THEN <<>>
    ELSE IF establishments_info = <<>>
    THEN << find_labeler_info_in_spl(labeler_fetch, doc, product.labeler_name, duns_db) >>
    ELSE establishments_info

MaxEstablishments == 10

\* a plausible slip: the list is returned whole
AllEstablishments(establishments) == establishments

\* establishments[:10]
LimitEstablishments(establishments) == Slice(establishments, 0, MaxEstablishments)

\* the row of one establishment; spl_operations holds the list that the code
\* joins with ', ', the empty list standing for the text it writes instead
ResultRow(input_ndc, product, establishment) ==
    [ndc |-> input_ndc,
     product_name |-> product.product_name,
     labeler_name |-> product.labeler_name,
     spl_id |-> product.spl_id,
     fei_number |-> Get(establishment, "fei_number", None),
     duns_number |-> Get(establishment, "duns_number", None),
     establishment_name |-> establishment.establishment_name,
     firm_name |-> establishment.firm_name,
     address_line_1 |-> establishment.address_line_1,
     city |-> establishment.city,
     state |-> establishment.state_province,
     country |-> establishment.country,
     spl_operations |-> Get(establishment, "operations", <<>>),
     spl_quotes |-> Get(establishment, "quotes", ""),
     search_method |-> establishment.search_method,
     xml_location |-> Get(establishment, "xml_location", "Unknown"),
     match_type |-> Get(establishment, "match_type", "Unknown")]

\* the row of a product without establishments
PlaceholderRow(input_ndc, product) ==
    [ndc |-> input_ndc,
     product_name |-> product.product_name,
     labeler_name |-> product.labeler_name,
     spl_id |-> product.spl_id,
     fei_number |-> None,
     duns_number |-> None,
     establishment_name |-> "None",
     firm_name |-> "None",
     address_line_1 |-> "None",
     city |-> "None",
     state |-> "None",
     country |-> "None",
     spl_operations |-> <<>>,
     spl_quotes |-> "None",
     search_method |-> "no_establishments_found",
     xml_location |-> "None",
     match_type |-> "None"]

\* a plausible slip: a product without establishments gets no row
RowsOfEstablishments(input_ndc, product, establishments) ==
    [i \in 1..Len(establishments) |-> ResultRow(input_ndc, product, establishments[i])]

\* the rows process_single_ndc builds from the establishments
ResultRows(input_ndc, product, establishments) ==
    IF establishments # <<>>
    THEN [i \in 1..Len(establishments) |->
              ResultRow(input_ndc, product, establishments[i])]
    ELSE << PlaceholderRow(input_ndc, product) >>

-----------------------------------------------------------------------------
(* The NDCs the normaliser is run on *)

MinNdcInputLen == 7
MaxNdcInputLen == 12

NdcAlphabet == {"0", "1"}

AllDigitNdcs ==
    UNION { SeqsOfLen(NdcAlphabet, n) : n \in MinNdcInputLen..MaxNdcInputLen }

DashedNdcs ==
    { l \o Dash \o p \o Dash \o k :
        l \in SeqsOfLen(NdcAlphabet, 4) \cup SeqsOfLen(NdcAlphabet, 5),
        p \in SeqsOfLen(NdcAlphabet, 3) \cup SeqsOfLen(NdcAlphabet, 4),
        k \in SeqsOfLen(NdcAlphabet, 1) \cup SeqsOfLen(NdcAlphabet, 2) }

\* NDCs of the documentation, and inputs that are not NDCs
SampleNdcs ==
    { <<"0","1","8","5","-","0","6","7","4","-","0","1">>,
      <<"0","0","1","8","5","-","0","6","7","4","-","0","1">>,
      <<"0","0","0","2","-","1","4","2","5","-","0","3">>,
      <<"1","2","3","4","5","-","6","7","8","-","9","0">>,
      <<"1","2","3","4","-","5","6","7","8","-","9","0">>,
      <<"1","2","3","4","-","5","6","7","-","8","9">>,
      <<"1","2","-","3","4">>,
      <<"1","2","3","4","5","6","7","8","-","9","0">>,
      <<"N","D","C"," ","1","2","3","4","5","-","6","7","8","-","9","0">>,
      <<>> }

NdcInputs == AllDigitNdcs \cup DashedNdcs \cup SampleNdcs

-----------------------------------------------------------------------------
(* The normaliser as a state machine: validate, then expand *)

NdcIdle ==
    /\ ndc = <<>>
    /\ ndc_step = "new"
    /\ ndc_valid = FALSE
    /\ ndc_variants = {}

IdIdle ==
    /\ id_number = <<>>
    /\ id_step = "new"
    /\ id_variants = <<>>
    /\ id_raised = FALSE

\* no file was read yet
NoTable == [readable |-> FALSE, columns |-> <<>>, rows |-> <<>>]

RegistryEmpty ==
    /\ fei_database = EmptyDict
    /\ duns_database = EmptyDict
    /\ database_loaded = FALSE
    /\ loaded_table = NoTable
    /\ lookups = {}

\* no document: the product has no setid
NoDoc ==
    [wellformed |-> FALSE, ids |-> <<>>, entities |-> <<>>,
     author |-> [name |-> "", extensions |-> <<>>], org_name |-> ""]

NoFetches == [extract |-> "none", scan |-> "none", labeler |-> "none"]

PipelineIdle ==
    /\ pc = "idle"
    /\ query = <<>>
    /\ normalized_ndc = <<>>
    /\ queue = <<>>
    /\ contacted = {}
    /\ failed = {}
    /\ found_record = {}
    /\ product_info = {}
    /\ spl_doc = NoDoc
    /\ fetches = NoFetches
    /\ scan_matches = <<>>
    /\ extracted = <<>>
    /\ results = <<>>
    /\ raised = FALSE

InitNdc ==
    /\ ndc \in NdcInputs
    /\ ndc_step = "new"
    /\ ndc_valid = FALSE
    /\ ndc_variants = {}
    /\ IdIdle
    /\ RegistryEmpty
    /\ PipelineIdle

ValidateNdc ==
    /\ ndc_step = "new"
    /\ ndc_valid' = validate_ndc_format(ndc)
    /\ ndc_step' = "validated"
    /\ UNCHANGED <<ndc, ndc_variants, id_vars, reg_vars, pipe_vars>>

ExpandNdc ==
    /\ ndc_step = "validated"
    /\ ndc_variants' = normalize_ndc_for_matching(ndc)
    /\ ndc_step' = "expanded"
    /\ UNCHANGED <<ndc, ndc_valid, id_vars, reg_vars, pipe_vars>>

NextNdc == ValidateNdc \/ ExpandNdc

SpecNdc == InitNdc /\ [][NextNdc]_vars

-----------------------------------------------------------------------------
(* Properties of the NDC normaliser *)

AllZeros(s) == \A i \in 1..Len(s) : s[i] = "0"

Is442(s) ==
    /\ MatchesDashedPattern(s)
    /\ Len(SplitDash(s)[1]) = 4 /\ Len(SplitDash(s)[2]) = 4 /\ Len(SplitDash(s)[3]) = 2

\* C1: for every all-digit string d of 8 to 11 digits, the variants of d
\* contain d itself and d left-padded with zeros to 11 digits.
C1_DigitsAndPadded ==
    (ndc_step = "expanded" /\ AllDigits(ndc) /\ Len(ndc) \in 8..11)
        => (ndc \in ndc_variants /\ ZeroPad(ndc, 11) \in ndc_variants)

C1_Witness ==
    /\ ndc_step = "expanded"
    /\ ndc = <<"1", "0", "1", "0", "1", "0", "1", "0", "1">>
    /\ <<"0", "0", "1", "0", "1", "0", "1", "0", "1", "0", "1">> \in ndc_variants
    /\ ndc \in ndc_variants

\* the segment conventions of a dashed NDC: labeler, product, package lengths
SegmentConventions == { <<4, 4, 2>>, <<5, 3, 2>>, <<5, 4, 2>>, <<4, 3, 2>> }

SegmentLengths(s) ==
    <<Len(SplitDash(s)[1]), Len(SplitDash(s)[2]), Len(SplitDash(s)[3])>>

\* the 11-digit value of a dashed NDC has a form under convention c when the
\* digits that c leaves out are zeros
HasForm(s, c) ==
    /\ AllZeros(Slice(ZeroPad(SplitDash(s)[1], 5), 0, 5 - c[1]))
    /\ AllZeros(Slice(ZeroPad(SplitDash(s)[2], 4), 0, 4 - c[2]))

FormUnder(s, c) ==
    From(ZeroPad(SplitDash(s)[1], 5), 5 - c[1]) \o Dash
        \o From(ZeroPad(SplitDash(s)[2], 4), 4 - c[2]) \o Dash \o SplitDash(s)[3]

\* C2: for every dashed NDC in one of the conventions 4-4-2, 5-3-2, 5-4-2,
\* 4-3-2, the variants contain the dashed form of the same 11-digit value
\* under each of the other three conventions (where leading zeros allow it).
C2_OtherConventions ==
    (/\ ndc_step = "expanded"
     /\ MatchesDashedPattern(ndc)
     /\ SegmentLengths(ndc) \in SegmentConventions)
        => \A c \in SegmentConventions \ {SegmentLengths(ndc)} :
               HasForm(ndc, c) => FormUnder(ndc, c) \in ndc_variants

\* C3: for every 4-4-2 NDC l-p-k, the variants of l-p-k and those of its
\* 5-4-2 form 0l-p-k share a member, so the NDC-specific operation filter
\* takes the one for the other.
C3_PaddedLabelerMatches ==
    (ndc_step = "expanded" /\ Is442(ndc))
        => ndc_found_in_operation(<< <<"0">> \o ndc >>, ndc_variants)

C3_Witness ==
    /\ ndc_step = "expanded"
    /\ ndc = <<"0", "1", "8", "5", "-", "0", "6", "7", "4", "-", "0", "1">>
    /\ ndc_found_in_operation(
           << <<"0", "0", "1", "8", "5", "-", "0", "6", "7", "4", "-", "0", "1">> >>,
           ndc_variants)

\* C10: for every NDC that validate_ndc_format accepts, dashed or all-digit,
\* the variants contain the trimmed input unchanged.
C10_OriginalIncluded ==
    (/\ ndc_step = "expanded"
     /\ ndc_valid
     /\ (AllDigits(ndc) \/ MatchesDashedPattern(ndc)))
        => Strip(ndc) \in ndc_variants

-----------------------------------------------------------------------------
(* The identifier normaliser as a state machine *)

MaxIdInputLen == 4

IdAlphabet == {"0", "1", " ", "-"}

SampleIds ==
    { <<"3","0","0","4","5","6","8","0","9","1">>,
      <<"0","0","3","0","0","4","5","6","8","0","9","1">>,
      <<"1","2","-","3","4","5","6","7">>,
      <<" ","0","0","1","2","3","4","5","6","7"," ">>,
      <<"F","E","I",":","1","2","3","4","5","6","7">>,
      <<"0","0","0","0","0","0","0","0","0","1","2","3","4","5","6","7">>,
      <<"a","b","c">> }

IdInputs ==
    UNION { SeqsOfLen(IdAlphabet, n) : n \in 0..MaxIdInputLen } \cup SampleIds

InitId ==
    /\ id_number \in IdInputs
    /\ id_step = "new"
    /\ id_variants = <<>>
    /\ id_raised = FALSE
    /\ NdcIdle
    /\ RegistryEmpty
    /\ PipelineIdle

GenerateIdVariants ==
    /\ id_step = "new"
    /\ id_variants' = generate_all_id_variants_call(id_number).value
    /\ id_raised' = generate_all_id_variants_call(id_number).raised
    /\ id_step' = "done"
    /\ UNCHANGED <<id_number, ndc_vars, reg_vars, pipe_vars>>

NextId == GenerateIdVariants

SpecId == InitId /\ [][NextId]_vars

HasDigit(s) == \E i \in 1..Len(s) : IsDigit(s[i])

\* C9: for every identifier with at least one digit the variants are not
\* empty and contain the trimmed original and the digits-only form; for any
\* input the call does not raise and the empty string is no variant.
C9_TrimmedAndDigits ==
    id_step = "done"
        => /\ ~id_raised
           /\ <<>> \notin Range(id_variants)
           /\ HasDigit(id_number)
                 => /\ id_variants # <<>>
                    /\ Strip(id_number) \in Range(id_variants)
                    /\ DigitsOnly(id_number) \in Range(id_variants)

C9_Witness ==
    /\ id_step = "done"
    /\ id_number = <<" ","0","0","1","2","3","4","5","6","7"," ">>
    /\ <<"0","0","1","2","3","4","5","6","7">> \in Range(id_variants)
    /\ <<"0","0","0","1","2","3","4","5","6","7">> \in Range(id_variants)
    /\ ~id_raised

-----------------------------------------------------------------------------
(* The registry as a state machine: the constructor's load loop, then lookups *)

MaxRows == 2
MaxLookups == 2

RowPool ==
    { [fei |-> <<"1","2","3","4","5","6","7">>, duns |-> <<>>,
       address |-> <<"ACME STERILE MANUFACTURING", "1 Main St", "Boston", "MA USA">>,
       firm_name |-> "ACME"],
      [fei |-> <<"1","2","-","3","4","5","6","7">>, duns |-> <<>>,
       address |-> <<"BETA LABS", "2 High St">>,
       firm_name |-> "BETA PHARMA LABORATORIES INC"],
      [fei |-> <<"0","1","2","3","4","5","6","7">>,
       duns |-> <<"0","1","2","3","4","5","6","7","8">>,
       address |-> <<"GAMMA">>, firm_name |-> ""],
      [fei |-> <<>>, duns |-> <<"1","2","3","4","5","6","7","8">>,
       address |-> <<"DELTA", "3 Low St", "Basel", "SCHWEIZ">>,
       firm_name |-> "DELTA AG"],
      [fei |-> <<"1","2","3","4","5","6">>, duns |-> <<"1","2","3","4","5","6","7">>,
       address |-> <<"SHORT", "4 Side St", "Ulm">>, firm_name |-> "SHORT GMBH"],
      [fei |-> <<"7","6","5","4","3","2","1">>, duns |-> <<"8","7","6","5","4","3","2","1">>,
       address |-> <<>>, firm_name |-> "NO ADDRESS"] }

RECURSIVE SeqsUpTo(_, _)
SeqsUpTo(A, n) ==
    IF n = 0 THEN {<<>>}
    ELSE SeqsUpTo(A, n - 1) \cup SeqsOfLen(A, n)

\* the headers a column of the file may have
FeiHeaders ==
    << <<"F","E","I"," ","N","u","m","b","e","r">>,
       <<"f","e","i","_","n","u","m","b","e","r">>,
       <<"F","E","I","N","U","M","B","E","R">>,
       <<" ","F","E","I"," ","N","u","m","b","e","r">>,
       <<"F","E","I">> >>
DunsHeaders == << <<"D","U","N","S","_","N","U","M","B","E","R">>, <<"D","U","N","S">> >>
AddressHeaders == << <<"A","D","D","R","E","S","S">>, <<"L","o","c","a","t","i","o","n">> >>
FirmNameHeaders == << <<"F","I","R","M","_","N","A","M","E">> >>

\* the columns of a file: a header for each of the four data columns, or
\* <<>> for a column the file does not have
Columns(fei, duns, address, firm_name) ==
    (IF fei = <<>> THEN <<>> ELSE << [name |-> fei, data |-> "fei"] >>)
    \o (IF duns = <<>> THEN <<>> ELSE << [name |-> duns, data |-> "duns"] >>)
    \o (IF address = <<>> THEN <<>> ELSE << [name |-> address, data |-> "address"] >>)
    \o (IF firm_name = <<>> THEN <<>>
        ELSE << [name |-> firm_name, data |-> "firm_name"] >>)

FullColumns == Columns(FeiHeaders[1], DunsHeaders[1], AddressHeaders[1], FirmNameHeaders[1])

FullTable(rows) == [readable |-> TRUE, columns |-> FullColumns, rows |-> rows]

\* the rows of the files of several rows
SeveralRows == { row \in RowPool : row.firm_name \notin {"SHORT GMBH", "NO ADDRESS"} }

\* the row of the files whose headers vary
HeaderRow == CHOOSE row \in RowPool : row.firm_name = ""

\* the headers of the files whose headers vary: one column varies at a time
HeaderSets ==
    { Columns(f, DunsHeaders[1], AddressHeaders[1], FirmNameHeaders[1]) :
          f \in Range(FeiHeaders) \cup {<<>>} }
    \cup { Columns(<<>>, d, AddressHeaders[1], FirmNameHeaders[1]) :
              d \in Range(DunsHeaders) \cup {<<>>} }
    \cup { Columns(FeiHeaders[1], DunsHeaders[1], a, n) :
              a \in Range(AddressHeaders) \cup {<<>>},
              n \in Range(FirmNameHeaders) \cup {<<>>} }

\* files with every column and up to MaxRows rows, a file that cannot be
\* read, and files of one row whose headers vary
Tables ==
    { FullTable(rows) : rows \in SeqsUpTo(RowPool, 1) \cup SeqsUpTo(SeveralRows, MaxRows) }
    \cup { [readable |-> FALSE, columns |-> FullColumns, rows |-> <<HeaderRow>>] }
    \cup { [readable |-> TRUE, columns |-> columns, rows |-> <<HeaderRow>>] :
              columns \in HeaderSets }

LookupIds ==
    { <<"1","2","3","4","5","6","7">>,
      <<"1","2","-","3","4","5","6","7">>,
      <<"0","0","1","2","3","4","5","6","7">>,
      <<"1","2","3","4","5","6","7","8">>,
      <<"7","6","5","4","3","2","1">> }

InitRegistry ==
    /\ RegistryEmpty
    /\ NdcIdle
    /\ IdIdle
    /\ PipelineIdle

\* one round of load_database_automatically: the next file that exists is
\* loaded; the loop ends when a dict is not empty
LoadDatabase(table) ==
    /\ ~database_loaded
    /\ LET dbs == LoadSpreadsheet([fei |-> fei_database, duns |-> duns_database], table)
       IN  /\ fei_database' = dbs.fei
           /\ duns_database' = dbs.duns
           /\ database_loaded' = (DOMAIN dbs.fei # {} \/ DOMAIN dbs.duns # {})
    /\ loaded_table' = table
    /\ UNCHANGED <<lookups, ndc_vars, id_vars, pipe_vars>>

LookupFei(id) ==
    /\ database_loaded
    /\ Cardinality(lookups) < MaxLookups
    /\ lookups' = lookups \cup
           { [kind |-> "fei", id |-> id,
              result |-> lookup_fei_establishment(fei_database, id)] }
    /\ fei_database' = StoredAfterLookup(fei_database, id, "fei_number")
    /\ UNCHANGED <<duns_database, database_loaded, loaded_table,
                   ndc_vars, id_vars, pipe_vars>>

LookupDuns(id) ==
    /\ database_loaded
    /\ Cardinality(lookups) < MaxLookups
    /\ lookups' = lookups \cup
           { [kind |-> "duns", id |-> id,
              result |-> lookup_duns_establishment(duns_database, id)] }
    /\ duns_database' = StoredAfterLookup(duns_database, id, "duns_number")
    /\ UNCHANGED <<fei_database, database_loaded, loaded_table,
                   ndc_vars, id_vars, pipe_vars>>

NextRegistry ==
    \/ \E table \in Tables : LoadDatabase(table)
    \/ \E id \in LookupIds : LookupFei(id)
    \/ \E id \in LookupIds : LookupDuns(id)

SpecRegistry == InitRegistry /\ [][NextRegistry]_vars

\* the facility record of a lookup result, without the echoed key
Facility(info) ==
    [k \in DOMAIN info \ {"fei_number", "duns_number"} |-> info[k]]

FacilityOf(result) == { Facility(info) : info \in result }

VariantsIntersect(a, b) ==
    Range(generate_all_id_variants(a)) \cap Range(generate_all_id_variants(b)) # {}

\* C4: after a registry load, two identifiers whose variant sets intersect
\* are looked up to the same facility record (the echoed key set aside), in
\* the FEI mapping and in the DUNS mapping alike.
C4_LookupSymmetric ==
    \A x \in lookups : \A y \in lookups :
        (x.kind = y.kind /\ VariantsIntersect(x.id, y.id))
            => FacilityOf(x.result) = FacilityOf(y.result)

\* the two dicts of a fresh cleaner
NoEntries == [fei |-> EmptyDict, duns |-> EmptyDict]

\* the keys a row is stored under: none for a row without an address or with
\* too few digits
FeiKeysOf(row) ==
    IF row.address # <<>> /\ Len(DigitsOnly(row.fei)) >= MinFeiDigits
    THEN Range(generate_all_id_variants(Strip(row.fei)))
    ELSE {}

DunsKeysOf(row) ==
    IF row.address # <<>> /\ Len(DigitsOnly(row.duns)) >= MinDunsDigits
    THEN Range(generate_all_id_variants(Strip(row.duns)))
    ELSE {}

\* the last row of rows that is stored under key
LastFeiRow(rows, key) ==
    rows[CHOOSE i \in 1..Len(rows) :
             /\ key \in FeiKeysOf(rows[i])
             /\ \A j \in (i + 1)..Len(rows) : key \notin FeiKeysOf(rows[j])]

LastDunsRow(rows, key) ==
    rows[CHOOSE i \in 1..Len(rows) :
             /\ key \in DunsKeysOf(rows[i])
             /\ \A j \in (i + 1)..Len(rows) : key \notin DunsKeysOf(rows[j])]

\* a file with all four columns was read, and nothing was looked up yet
FullTableLoaded ==
    lookups = {} /\ loaded_table.readable /\ loaded_table.columns = FullColumns

\* C12: after a load, every key of every row is in its mapping, and a key two
\* rows share holds the record of the later row; the keys the earlier row
\* does not share keep its record.
C12_LastWriteWins ==
    FullTableLoaded
    => LET rows == loaded_table.rows
       IN  /\ \A i \in 1..Len(rows) : \A key \in FeiKeysOf(rows[i]) :
                  /\ key \in DOMAIN fei_database
                  /\ fei_database[key].original_fei = Strip(LastFeiRow(rows, key).fei)
           /\ \A i \in 1..Len(rows) : \A key \in DunsKeysOf(rows[i]) :
                  /\ key \in DOMAIN duns_database
                  /\ duns_database[key].original_duns
                         = Strip(LastDunsRow(rows, key).duns)

\* two rows share a key and the earlier row has a key of its own
C12_Witness ==
    /\ FullTableLoaded
    /\ Len(loaded_table.rows) = 2
    /\ loaded_table.rows[1].fei # loaded_table.rows[2].fei
    /\ FeiKeysOf(loaded_table.rows[1]) \cap FeiKeysOf(loaded_table.rows[2]) # {}
    /\ FeiKeysOf(loaded_table.rows[1]) \ FeiKeysOf(loaded_table.rows[2]) # {}
    /\ \A key \in FeiKeysOf(loaded_table.rows[1]) \cap FeiKeysOf(loaded_table.rows[2]) :
           fei_database[key].original_fei = loaded_table.rows[2].fei

\* the file that ends with row i of the file read
RowsUpTo(i) == [loaded_table EXCEPT !.rows = SubSeq(loaded_table.rows, 1, i)]

\* the firm name a record holds for a row
FirmName(row) == IF row.firm_name = "" THEN "Unknown" ELSE row.firm_name

\* C13: with the dicts as they are before and after a row of the file: a row
\* with an address and an FEI of at least 7 digits has every variant of the FEI
\* as a key that holds its record, any other row leaves the FEI dict as it
\* was; the same for the DUNS dict with 8 digits.
C13_RowContribution ==
    FullTableLoaded
    => /\ fei_database = LoadSpreadsheet(NoEntries, loaded_table).fei
       /\ duns_database = LoadSpreadsheet(NoEntries, loaded_table).duns
       /\ \A i \in 1..Len(loaded_table.rows) :
              LET row == loaded_table.rows[i]
                  before == LoadSpreadsheet(NoEntries, RowsUpTo(i - 1))
                  after == LoadSpreadsheet(NoEntries, RowsUpTo(i))
              IN  /\ IF row.address # <<>> /\ Len(DigitsOnly(row.fei)) >= 7
                     THEN /\ \A n \in 1..Len(generate_all_id_variants(row.fei)) :
                                generate_all_id_variants(row.fei)[n] \in DOMAIN after.fei
                          /\ \A key \in Range(generate_all_id_variants(row.fei)) :
                                /\ key # <<>>
                                /\ after.fei[key].original_fei = row.fei
                                /\ after.fei[key].firm_name = FirmName(row)
                                /\ after.fei[key].establishment_name = Head(row.address)
                     ELSE after.fei = before.fei
                  /\ IF row.address # <<>> /\ Len(DigitsOnly(row.duns)) >= 8
                     THEN /\ \A n \in 1..Len(generate_all_id_variants(row.duns)) :
                                generate_all_id_variants(row.duns)[n] \in DOMAIN after.duns
                          /\ \A key \in Range(generate_all_id_variants(row.duns)) :
                                /\ key # <<>>
                                /\ after.duns[key].original_duns = row.duns
                                /\ after.duns[key].firm_name = FirmName(row)
                                /\ after.duns[key].establishment_name = Head(row.address)
                     ELSE after.duns = before.duns

\* a row with seven digits for the FEI and a row with eight for the DUNS and
\* no FEI were read: each filled its dict, the second left the FEI dict alone
C13_Witness ==
    /\ FullTableLoaded
    /\ Len(loaded_table.rows) = 2
    /\ Len(DigitsOnly(loaded_table.rows[1].fei)) = 7
    /\ loaded_table.rows[2].fei = <<>>
    /\ Len(DigitsOnly(loaded_table.rows[2].duns)) = 8
    /\ DOMAIN fei_database = FeiKeysOf(loaded_table.rows[1])
    /\ DOMAIN duns_database = DunsKeysOf(loaded_table.rows[2])
    /\ DOMAIN fei_database # {} /\ DOMAIN duns_database # {}

\* "FEI Number", "fei_number", "FEINUMBER"
FeiNumberSpellings == { FeiHeaders[1], FeiHeaders[2], FeiHeaders[3] }

\* the file has a column under one of these headers
HasHeader(table, headers) ==
    \E i \in 1..Len(table.columns) : table.columns[i].name \in headers

\* no column of FEI numbers ("FEI Number", "fei_number", "FEINUMBER",
\* " FEI Number") and none of DUNS numbers ("DUNS_NUMBER"), or no column of
\* addresses ("ADDRESS")
RequiredColumnMissing(table) ==
    \/ /\ ~HasHeader(table, FeiNumberSpellings \cup {FeiHeaders[4]})
       /\ ~HasHeader(table, {DunsHeaders[1]})
    \/ ~HasHeader(table, {AddressHeaders[1]})

\* C14: a load of a file that has neither a column of FEI numbers nor one of
\* DUNS numbers, or that has no column of addresses, leaves both dicts as
\* they were.
C14_MissingColumnsNoOp ==
    [][(loaded_table' # loaded_table /\ loaded_table'.readable
            /\ RequiredColumnMissing(loaded_table'))
        => (fei_database' = fei_database /\ duns_database' = duns_database)]_vars

\* a file whose identifiers stand under "DUNS", with addresses and a row that
\* would be stored, was read and nothing was stored
C14_Witness ==
    /\ loaded_table.readable
    /\ HasHeader(loaded_table, {DunsHeaders[2]})
    /\ HasHeader(loaded_table, {AddressHeaders[1]})
    /\ RequiredColumnMissing(loaded_table)
    /\ DunsKeysOf(loaded_table.rows[1]) # {}
    /\ DOMAIN fei_database = {} /\ DOMAIN duns_database = {}
    /\ ~database_loaded

\* the header of the column that holds the FEI numbers, None without one
FeiHeaderOf(table) ==
    IF \E i \in 1..Len(table.columns) : table.columns[i].data = "fei"
    THEN table.columns[CHOOSE i \in 1..Len(table.columns) :
                           table.columns[i].data = "fei"].name
    ELSE None

\* the same file with another header over the FEI numbers
WithFeiHeader(table, header) ==
    [table EXCEPT !.columns =
        [i \in 1..Len(table.columns) |->
            IF table.columns[i].data = "fei"
            THEN [name |-> header, data |-> "fei"]
            ELSE table.columns[i]]]

\* C15: a header spelled "FEI Number", "fei_number" or "FEINUMBER" gets the
\* FEI role, and the FEI mapping a load builds is the one the same rows
\* build under each of the other two spellings.
C15_HeaderSpellings ==
    (lookups = {} /\ loaded_table.readable
        /\ FeiHeaderOf(loaded_table) \in FeiNumberSpellings)
    => \A header \in FeiNumberSpellings :
           /\ ColumnRole(header) = "fei"
           /\ fei_database
                  = LoadSpreadsheet(NoEntries, WithFeiHeader(loaded_table, header)).fei

C15_Witness ==
    /\ lookups = {}
    /\ loaded_table.readable
    /\ FeiHeaderOf(loaded_table) = FeiHeaders[3]
    /\ <<"1","2","3","4","5","6","7">> \in DOMAIN fei_database

-----------------------------------------------------------------------------
(* The product lookup *)

\* normalize_ndc_11digit
normalize_ndc_11digit(n) ==
    LET clean_ndc == RemoveDashes(n)
    IN  IF Len(clean_ndc) = 10 THEN <<"0">> \o clean_ndc ELSE clean_ndc

\* normalize_ndc_10digit
normalize_ndc_10digit(n) ==
    LET clean_ndc == RemoveDashes(n)
    IN  IF Len(clean_ndc) = 11 /\ StartsWith(clean_ndc, <<"0">>)
        THEN From(clean_ndc, 1) ELSE clean_ndc

MinRequestLen == 6

\* set(ndc_variants + additional_variants), without the variants the loop skips
RequestVariants(n) ==
    { v \in normalize_ndc_for_matching(n)
            \cup { RemoveDashes(n), n, normalize_ndc(n),
                   normalize_ndc_11digit(n), normalize_ndc_10digit(n) } :
        v # <<>> /\ Len(v) >= MinRequestLen }

CharOrder == <<"-", "0", "1", "2", "3", "4", "5", "6", "7", "8", "9">>

CharRank(c) == CHOOSE i \in 1..Len(CharOrder) : CharOrder[i] = c

RECURSIVE StrLess(_, _)
StrLess(a, b) ==
    IF a = <<>> THEN b # <<>>
    ELSE IF b = <<>> THEN FALSE
    ELSE IF Head(a) = Head(b) THEN StrLess(Tail(a), Tail(b))
    ELSE CharRank(Head(a)) < CharRank(Head(b))

RECURSIVE SortedSeq(_)
SortedSeq(S) ==
    IF S = {} THEN <<>>
    ELSE LET m == CHOOSE x \in S : \A y \in S \ {x} : StrLess(x, y)
         IN  <<m>> \o SortedSeq(S \ {m})

Rotate(s, k) ==
    IF s = <<>> THEN s
    ELSE SubSeq(s, (k % Len(s)) + 1, Len(s)) \o SubSeq(s, 1, k % Len(s))

MaxRotations == 3

\* list(set(...)): the order of a set is not fixed; the orders taken here are
\* rotations of the sorted list
VariantOrders(n) ==
    { Rotate(SortedSeq(RequestVariants(n)), k) : k \in 0..(MaxRotations - 1) }

\* what a service answers to one request
Responses == {"hit", "empty", "non200", "exception"}

\* a plausible slip: the inner try without its handler
HandleResponseUncaught(response) ==
    IF response = "hit" THEN "return"
    ELSE IF response = "exception" THEN "raise"
    ELSE "continue"

\* a plausible slip: the loop goes on after a record was found
HandleResponseNoReturn(response) == "continue"

\* one iteration of the loop over the variants: a 200 with data returns, any
\* other answer and any exception goes on to the next variant
HandleResponse(response) ==
    IF response = "hit" THEN "return" ELSE "continue"

\* the last bracketed text of a title, "" without one
LastBracket(product_name) ==
    IF product_name = "ASPIRIN 81 MG [BETA]" THEN "BETA"
    ELSE IF product_name = "ASPIRIN 81 MG [unknown] by GAMMA" THEN "unknown"
    ELSE ""

\* the text after "by" or "from" in a title, "" without one
ByPart(product_name) ==
    IF product_name = "ASPIRIN 81 MG [unknown] by GAMMA" THEN "GAMMA" ELSE ""

NoLabelerWords == {"unknown", "Unknown", "UNKNOWN", "n/a", "N/A", "none", "None", "NONE"}

extract_labeler_from_product_name(product_name) ==
    IF LastBracket(product_name) # "" /\ LastBracket(product_name) \notin NoLabelerWords
    THEN LastBracket(product_name)
    ELSE IF ByPart(product_name) # "" /\ ByPart(product_name) \notin NoLabelerWords
    THEN ByPart(product_name)
    ELSE "Not specified"

\* the first record of a DailyMed answer
DailymedHits ==
    { [title |-> "ASPIRIN 81 MG", labeler |-> "ACME", setid |-> "SPL1"],
      [title |-> "ASPIRIN 81 MG [BETA]", labeler |-> "", setid |-> "SPL1"],
      [title |-> "ASPIRIN 81 MG [unknown] by GAMMA", labeler |-> "Unknown", setid |-> ""],
      [title |-> "ASPIRIN 81 MG", labeler |-> "Unknown", setid |-> "SPL1"],
      [title |-> "ASPIRIN 81 MG", labeler |-> "None", setid |-> ""] }

\* the labeler after methods 1 and 2
ApiOrTitleLabeler(spl_data) ==
    IF spl_data.labeler \notin {"Unknown", "", "None"}
    THEN spl_data.labeler
    ELSE extract_labeler_from_product_name(spl_data.title)

\* method 3 reads the label document
NeedsSplLabeler(spl_data) ==
    /\ ApiOrTitleLabeler(spl_data) \in {"Not specified", "Unknown", ""}
    /\ spl_data.setid # ""

\* the ProductInfo of a DailyMed record; spl_id "" is None
DailymedProduct(n, spl_data, fetch, doc) ==
    LET first == ApiOrTitleLabeler(spl_data)
        spl_labeler == extract_labeler_from_spl(fetch, doc).name
        second == IF NeedsSplLabeler(spl_data) /\ spl_labeler # "Unknown"
                  THEN spl_labeler ELSE first
    IN  [ndc |-> n,
         product_name |-> spl_data.title,
         labeler_name |-> IF second \in {"Unknown", "Not specified", ""}
                          THEN "Manufacturer name not available" ELSE second,
         spl_id |-> spl_data.setid]

\* the first result of an openFDA answer
OpenfdaHits ==
    { [brand_name |-> <<"BAYER ASPIRIN">>, generic_name |-> <<"ASPIRIN">>,
       manufacturer_name |-> <<"BAYER">>],
      [brand_name |-> <<>>, generic_name |-> <<"ASPIRIN">>, manufacturer_name |-> <<>>],
      [brand_name |-> <<>>, generic_name |-> <<>>, manufacturer_name |-> <<"BAYER">>] }

OpenfdaProduct(n, openfda) ==
    [ndc |-> n,
     product_name |-> IF openfda.brand_name # <<>> THEN openfda.brand_name[1]
                      ELSE IF openfda.generic_name # <<>> THEN openfda.generic_name[1]
                      ELSE "Unknown",
     labeler_name |-> IF openfda.manufacturer_name # <<>>
                      THEN openfda.manufacturer_name[1] ELSE "Unknown",
     spl_id |-> ""]

-----------------------------------------------------------------------------
(* The registry and the label documents of the queries *)

MaxDocIds == 12

DigitChars == <<"0", "1", "2", "3", "4", "5", "6", "7", "8", "9">>

\* the FEI number of the i-th plant, i < 100
FeiOf(i) == <<"3", "0", "0", "0", "0", DigitChars[(i \div 10) + 1], DigitChars[(i % 10) + 1]>>

PlantRow(i) ==
    [fei |-> FeiOf(i), duns |-> <<>>,
     address |-> <<"PLANT", "5 Dock Rd", "Newark", "USA">>, firm_name |-> "PLANT CO"]

\* ACME's DUNS number without its leading zero is its FEI number
AcmeRow ==
    [fei |-> <<"1","2","3","4","5","6","7">>, duns |-> <<"0","1","2","3","4","5","6","7">>,
     address |-> <<"ACME STERILE MANUFACTURING", "1 Main St", "Boston", "MA USA">>,
     firm_name |-> "ACME"]

DeltaRow ==
    [fei |-> <<>>, duns |-> <<"1","2","3","4","5","6","7","8">>,
     address |-> <<"DELTA", "3 Low St", "Basel", "SCHWEIZ">>, firm_name |-> "DELTA AG"]

QueryTable == FullTable(<<AcmeRow, DeltaRow>> \o [i \in 1..MaxDocIds |-> PlantRow(i)])

QueryRegistry == LoadSpreadsheet([fei |-> EmptyDict, duns |-> EmptyDict], QueryTable)

\* the id extensions a document is built from: ACME's number, the same
\* number written with sixteen digits and with a dash, a number the registry
\* does not have, and the plants' numbers
IdPool ==
    << <<"1","2","3","4","5","6","7">>,
       <<"0","0","0","0","0","0","0","0","0","1","2","3","4","5","6","7">>,
       <<"1","2","-","3","4","5","6","7">>,
       <<"9","9","9","9","9","9","9">> >> \o [i \in 1..MaxDocIds |-> FeiOf(i)]

IdLists ==
    { SubSeq(IdPool, 1, j) : j \in 0..4 }
    \cup { SubSeq(IdPool, 5, j) : j \in 5..(4 + MaxDocIds) }
    \cup { <<IdPool[3], IdPool[1]>>, <<IdPool[1], IdPool[1]>>, <<IdPool[4]>> }

\* the product code the <performance> elements of the documents name
ProductNdc == <<"0","1","8","5","-","0","6","7","4">>

OtherNdc == <<"5","5","5","5","-","4","4","4","4">>

\* the <performance> elements of the block of the i-th id: two operations
\* declared for the product, one declared for no product, one declared for
\* another product and, in every second block, the API manufacture of the
\* product
ProductPerformances(i) ==
    << [code |-> "C43360", ndcs |-> <<ProductNdc>>],
       [code |-> "C84731", ndcs |-> <<ProductNdc, OtherNdc>>],
       [code |-> "C25391", ndcs |-> <<>>],
       [code |-> "C84732", ndcs |-> <<OtherNdc>>] >>
        \o (IF i % 2 = 0 THEN << [code |-> "C25394", ndcs |-> <<ProductNdc>>] >> ELSE <<>>)

\* the <businessOperation> elements of the block of the i-th id
BusinessOperations(i) ==
    << [display_name |-> <<"R","e","p","a","c","k">>, codes |-> {}],
       [display_name |-> <<>>, codes |-> {"C25391"}],
       [display_name |-> <<"m","a","n","u","f","a","c","t","u","r","e">>, codes |-> {}] >>
        \o (IF i % 2 = 0
            THEN << [display_name |-> <<"A","P","I"," ","M","a","n","u","f","a","c","t","u","r","e">>,
                     codes |-> {}] >>
            ELSE <<>>)

\* one <assignedEntity> block per id
Entities(ids, mode) ==
    IF mode = "ndc"
    THEN [i \in 1..Len(ids) |->
             [extensions |-> <<ids[i]>>, perfs |-> ProductPerformances(i), busops |-> <<>>]]
    ELSE IF mode = "general"
    THEN [i \in 1..Len(ids) |->
             [extensions |-> <<ids[i]>>,
              perfs |-> << [code |-> "C43360", ndcs |-> <<OtherNdc>>] >>,
              busops |-> BusinessOperations(i)]]
    ELSE <<>>

Modes == {"ndc", "general", "none"}

\* the <author> organization and the first organization-like <name>
Authors ==
    { [author |-> [name |-> "", extensions |-> <<>>], org_name |-> ""],
      [author |-> [name |-> "", extensions |-> <<>>], org_name |-> "ZETA LLC"],
      [author |-> [name |-> "Delta", extensions |-> << <<"1","2","-","3","4","5","-","6","7","8">> >>],
       org_name |-> ""],
      [author |-> [name |-> "Plant Co", extensions |-> << <<"7","7","7">> >>],
       org_name |-> "ZETA LLC"] }

\* the author's id elements come first in the document
MkDoc(ids, mode, a) ==
    [wellformed |-> TRUE,
     ids |-> a.author.extensions \o ids,
     entities |-> Entities(ids, mode),
     author |-> a.author,
     org_name |-> a.org_name]

Malformed ==
    [wellformed |-> FALSE, ids |-> <<>>, entities |-> <<>>,
     author |-> [name |-> "", extensions |-> <<>>], org_name |-> "ZETA LLC"]

\* a document that does not parse, with an id element of ACME's number
MalformedWithId ==
    [wellformed |-> FALSE, ids |-> <<IdPool[1], IdPool[3]>>,
     entities |-> Entities(<<IdPool[1], IdPool[3]>>, "ndc"),
     author |-> [name |-> "", extensions |-> <<>>], org_name |-> ""]

NoAuthor == [author |-> [name |-> "", extensions |-> <<>>], org_name |-> ""]

\* every author with the short id lists, no author with the long ones
Docs ==
    { MkDoc(ids, mode, a) : ids \in { l \in IdLists : Len(l) <= 2 }, mode \in Modes,
                            a \in Authors }
    \cup { MkDoc(ids, mode, NoAuthor) : ids \in IdLists, mode \in Modes }
    \cup { Malformed, MalformedWithId }

\* the NDCs asked for: ten digits with dashes, eleven digits, eight digits
\* with a dash out of place, and inputs of four, seven and twelve digits
QueryNdcs ==
    { <<"0","1","8","5","-","0","6","7","4","-","0","1">>,
      <<"0","0","1","8","5","0","6","7","4","0","1">>,
      <<"0","1","-","8","5","0","6","7","4">>,
      <<"1","2","-","3","4">>,
      <<"N","D","C"," ","0","1","8","5","-","0","6","7">>,
      <<"0","0","1","8","5","-","0","0","6","7","4","-","0","1">>,
      <<"0","0","0","1","8","5","0","6","7","4","0","1">> }

-----------------------------------------------------------------------------
(* process_single_ndc, one step per request of the product lookup *)

Init ==
    /\ NdcIdle
    /\ IdIdle
    /\ fei_database = QueryRegistry.fei
    /\ duns_database = QueryRegistry.duns
    /\ database_loaded = TRUE
    /\ loaded_table = QueryTable
    /\ lookups = {}
    /\ PipelineIdle

\* the call: validate_ndc_format, normalize_ndc, and the variants of the
\* DailyMed loop
StartQuery(n) ==
    /\ pc = "idle"
    /\ query' = n
    /\ IF validate_ndc_format(n)
       THEN /\ normalized_ndc' = normalize_ndc(n)
            /\ queue' \in VariantOrders(normalize_ndc(n))
            /\ pc' = IF queue' = <<>> THEN "done" ELSE "dailymed"
       ELSE /\ normalized_ndc' = <<>>
            /\ queue' = <<>>
            /\ pc' = "done"
    /\ UNCHANGED <<contacted, failed, found_record, product_info, spl_doc, fetches,
                   scan_matches, extracted, results, raised, ndc_vars, id_vars, reg_vars>>

\* a plausible slip: the second service is asked whatever the first returned
AskOpenfdaAnyway(dailymed_info) == "openfda"

\* get_ndc_info_comprehensive: what follows the answer of DailyMed, the
\* return of its ProductInfo or the lookup in openFDA
AfterDailymed(dailymed_info) == IF dailymed_info # {} THEN "found" ELSE "openfda"

\* get_ndc_info_from_dailymed: the request of the next variant
DailymedTry(response) ==
    /\ pc = "dailymed"
    /\ queue # <<>>
    /\ contacted' = contacted \cup {"dailymed"}
    /\ IF HandleResponse(response) = "return"
       THEN /\ found_record' \in { {record} : record \in DailymedHits }
            /\ pc' = "labeler"
            /\ queue' = <<>>
            /\ failed' = {}
            /\ UNCHANGED raised
       ELSE IF HandleResponse(response) = "raise"
       THEN /\ raised' = TRUE
            /\ pc' = "done"
            /\ queue' = <<>>
            /\ failed' = failed \cup {response}
            /\ UNCHANGED found_record
       ELSE /\ failed' = failed \cup {response}
            /\ IF Len(queue) > 1
               THEN queue' = Tail(queue) /\ pc' = "dailymed"
               ELSE queue' \in VariantOrders(normalized_ndc) /\ pc' = AfterDailymed({})
            /\ UNCHANGED <<found_record, raised>>
    /\ UNCHANGED <<query, normalized_ndc, product_info, spl_doc, fetches, scan_matches,
                   extracted, results, ndc_vars, id_vars, reg_vars>>

\* the labeler of the record found, method 3 with its GET of the label
\* document, and the ProductInfo returned
DailymedLabeler ==
    /\ pc = "labeler"
    /\ LET record == CHOOSE r \in found_record : TRUE
       IN  \E doc \in (IF record.setid = "" THEN {NoDoc} ELSE Docs) :
           \E fetch \in (IF NeedsSplLabeler(record) THEN FetchOutcomes ELSE {"none"}) :
               /\ product_info' = { DailymedProduct(normalized_ndc, record, fetch, doc) }
               /\ spl_doc' = doc
    /\ found_record' = {}
    /\ pc' = AfterDailymed(product_info')
    /\ UNCHANGED <<query, normalized_ndc, queue, contacted, failed, fetches, scan_matches,
                   extracted, results, raised, ndc_vars, id_vars, reg_vars>>

\* get_ndc_info_from_openfda: the request of the next variant; after the
\* last one process_single_ndc returns the empty frame
OpenfdaTry(response) ==
    /\ pc = "openfda"
    /\ queue # <<>>
    /\ contacted' = contacted \cup {"openfda"}
    /\ IF HandleResponse(response) = "return"
       THEN \E openfda \in OpenfdaHits :
                /\ product_info' = { OpenfdaProduct(normalized_ndc, openfda) }
                /\ pc' = "found"
                /\ queue' = <<>>
                /\ failed' = {}
                /\ UNCHANGED raised
       ELSE IF HandleResponse(response) = "raise"
       THEN /\ raised' = TRUE
            /\ pc' = "done"
            /\ queue' = <<>>
            /\ failed' = failed \cup {response}
            /\ UNCHANGED product_info
       ELSE /\ failed' = failed \cup {response}
            /\ queue' = Tail(queue)
            /\ pc' = IF Len(queue) > 1 THEN "openfda" ELSE "done"
            /\ UNCHANGED <<product_info, raised>>
    /\ UNCHANGED <<query, normalized_ndc, found_record, spl_doc, fetches, scan_matches,
                   extracted, results, ndc_vars, id_vars, reg_vars>>

\* get_establishment_info and the rows, for the answers the three GETs of the
\* label document get
Extract ==
    /\ pc = "found"
    /\ LET product == CHOOSE p \in product_info : TRUE
           with_doc == product.spl_id # ""
       IN  \E fetch \in (IF with_doc THEN FetchOutcomes ELSE {"none"}) :
           \E scan \in (IF fetch = "200" THEN FetchOutcomes ELSE {"none"}) :
               LET found == find_fei_duns_matches_in_spl(scan, spl_doc,
                                                         fei_database, duns_database)
                   establishments_info ==
                       extract_establishments_with_fei(fetch, scan, spl_doc, product.ndc,
                                                       fei_database, duns_database)
                   looked_up == IF fetch = "200" THEN found ELSE <<>>
               IN  \E labeler_fetch \in (IF with_doc /\ establishments_info = <<>>
                                         THEN FetchOutcomes ELSE {"none"}) :
                       /\ fei_database' =
                              StoredAfterMatches(fei_database, looked_up,
                                                 "FEI_NUMBER", "fei_number")
                       /\ duns_database' =
                              LET labeler == extract_labeler_from_spl(labeler_fetch, spl_doc)
                                  stored == StoredAfterMatches(duns_database, looked_up,
                                                               "DUNS_NUMBER", "duns_number")
                              IN  IF labeler_fetch # "none" /\ labeler.duns # None
                                  THEN StoredAfterLookup(stored, labeler.duns, "duns_number")
                                  ELSE stored
                       /\ fetches' = [extract |-> fetch, scan |-> scan,
                                      labeler |-> labeler_fetch]
                       /\ raised' = (FetchOutcome(fetch) = "raise")
                       /\ scan_matches' = IF fetch = "200" THEN found ELSE <<>>
                       /\ extracted' = establishments_info
                       /\ results' =
                              ResultRows(query, product,
                                  LimitEstablishments(
                                      create_establishments_from_spl(
                                          product, establishments_info, labeler_fetch,
                                          spl_doc, duns_database)))
    /\ pc' = "done"
    /\ UNCHANGED <<query, normalized_ndc, queue, contacted, failed, found_record, product_info,
                   spl_doc, ndc_vars, id_vars, database_loaded, loaded_table, lookups>>

Next ==
    \/ \E n \in QueryNdcs : StartQuery(n)
    \/ \E response \in Responses : DailymedTry(response)
    \/ DailymedLabeler
    \/ \E response \in Responses : OpenfdaTry(response)
    \/ Extract

Spec == Init /\ [][Next]_vars

-----------------------------------------------------------------------------
(* The rows of a query *)

\* C5: a query returns at most 10 establishment rows, however many
\* identifier matches the label document has.
C5_AtMostTenRows == pc = "done" => Len(results) <= 10

\* more than ten establishments extracted, ten rows returned
C5_Witness ==
    /\ pc = "done"
    /\ Len(scan_matches) > 10
    /\ Len(extracted) > 10
    /\ Len(results) = 10

\* C6: no two rows of a query carry the same resolved FEI key, and no two
\* the same resolved DUNS key.
C6_NoDuplicateKeys ==
    pc = "done" =>
        \A i \in 1..Len(results) : \A j \in 1..Len(results) :
            i < j =>
                /\ results[i].fei_number = None
                       \/ results[i].fei_number # results[j].fei_number
                /\ results[i].duns_number = None
                       \/ results[i].duns_number # results[j].duns_number

\* C7: when no variant is found in DailyMed or in openFDA, whether by a
\* status other than 200, an empty list or an exception, the query returns
\* the empty result and raises nothing.
C7_FailedLookupEmpty ==
    (pc = "done" /\ validate_ndc_format(query) /\ product_info = {})
        => (results = <<>> /\ ~raised)

\* every variant was refused by both services, in each of the three ways
C7_Witness ==
    /\ pc = "done"
    /\ validate_ndc_format(query)
    /\ product_info = {}
    /\ contacted = {"dailymed", "openfda"}
    /\ failed = {"empty", "non200", "exception"}
    /\ results = <<>>

\* the names of the registry and of the documents, in lower case
Lower(name) ==
    IF name \in {"Plant Co", "PLANT CO"} THEN <<"p","l","a","n","t"," ","c","o">>
    ELSE IF name = "PLANT" THEN <<"p","l","a","n","t">>
    ELSE IF name \in {"Delta", "DELTA"} THEN <<"d","e","l","t","a">>
    ELSE IF name = "DELTA AG" THEN <<"d","e","l","t","a"," ","a","g">>
    ELSE IF name = "ZETA LLC" THEN <<"z","e","t","a"," ","l","l","c">>
    ELSE IF name = "ACME" THEN <<"a","c","m","e">>
    ELSE IF name = "ACME STERILE MANUFACTURING"
    THEN <<"a","c","m","e"," ","s","t","e","r","i","l","e"," ",
           "m","a","n","u","f","a","c","t","u","r","i","n","g">>
    ELSE <<"?">>

\* either contains the other, case set aside
SimilarNames(a, b) ==
    IsSubstring(Lower(a), Lower(b)) \/ IsSubstring(Lower(b), Lower(a))

DocNames(doc) == {doc.author.name, doc.org_name} \ {""}

RegistryRecords ==
    { fei_database[k] : k \in DOMAIN fei_database }
        \cup { duns_database[k] : k \in DOMAIN duns_database }

\* the scan of the document read well and found no identifier of the registry
ScanFoundNothing ==
    /\ pc = "done"
    /\ fetches.extract = "200"
    /\ fetches.scan = "200"
    /\ spl_doc.wellformed
    /\ scan_matches = <<>>

NoAddress == "Address not available in official documentation"

-----------------------------------------------------------------------------
(* The scan of a document that does not parse *)

\* C11: when the label document does not parse, the scan returns the matches
\* of the regex scan over the raw text.
C11_RegexFallback ==
    (pc = "done" /\ fetches.extract = "200" /\ fetches.scan = "200"
        /\ ~spl_doc.wellformed)
    => scan_matches = find_matches_with_regex(spl_doc, fei_database, duns_database)

-----------------------------------------------------------------------------
(* The registry during the queries *)

\* C16: the queries leave both dicts as the load built them: the same keys,
\* the same record under each key.
C16_IndexUnchanged ==
    /\ fei_database = QueryRegistry.fei
    /\ duns_database = QueryRegistry.duns

\* a query was answered with a record of the FEI dict, the key in it
C16_Witness ==
    /\ pc = "done"
    /\ \E i \in 1..Len(extracted) :
           /\ extracted[i].match_type = "FEI_NUMBER"
           /\ extracted[i].search_method = "spreadsheet_fei_database"
    /\ \E i \in 1..Len(results) : results[i].fei_number # None

-----------------------------------------------------------------------------
(* The requests of the product lookup *)

InVariantLoop(at) == at \in {"dailymed", "openfda"}

NoRepeats(s) == \A i \in 1..Len(s) : \A j \in 1..Len(s) : s[i] = s[j] => i = j

\* C17: in the loop of either service the variants still to request are
\* distinct and of 6 characters or more; a request that does not find a
\* record leaves the variants after it, one that finds a record is the last:
\* the loop never goes on after a hit and nothing is left to request outside
\* the loop.
C17_VariantLoop ==
    [][/\ InVariantLoop(pc)
           => (queue # <<>> /\ NoRepeats(queue)
                  /\ \A i \in 1..Len(queue) : Len(queue[i]) >= 6)
       /\ (InVariantLoop(pc) /\ pc' = pc) => queue' = Tail(queue)
       /\ "hit" \notin failed'
       /\ ~InVariantLoop(pc') => queue' = <<>>]_vars

\* the last variant of the second service is about to be requested, after
\* every kind of failure
C17_Witness ==
    /\ pc = "openfda"
    /\ failed = {"empty", "non200", "exception"}
    /\ Len(queue) = 1
    /\ contacted = {"dailymed", "openfda"}

\* the titles of the records of DailyMed
DailymedTitles == { record.title : record \in DailymedHits }

\* C18: openFDA is asked only once the last variant of DailyMed has failed;
\* a record found in DailyMed is the product returned, and openFDA is not
\* asked in that query.
C18_SecondaryAfterPrimary ==
    [][/\ (pc' = "openfda" /\ pc # "openfda")
           => (pc = "dailymed" /\ Len(queue) = 1 /\ "dailymed" \in contacted'
                  /\ found_record' = {} /\ product_info' = {})
       /\ "openfda" \in contacted' => "dailymed" \in contacted'
       /\ pc = "labeler"
           => /\ pc' = "found"
              /\ "openfda" \notin contacted'
              /\ \E record \in found_record :
                     \E product \in product_info' :
                         /\ product.product_name = record.title
                         /\ product.spl_id = record.setid
       /\ \A product \in product_info' :
              product.product_name \in DailymedTitles => "openfda" \notin contacted']_vars

\* a query answered from the record DailyMed found after failures
C18_Witness ==
    /\ pc = "done"
    /\ contacted = {"dailymed"}
    /\ \E product \in product_info : product.product_name \in DailymedTitles
    /\ results # <<>>

-----------------------------------------------------------------------------
(* The failures of the extraction *)

\* C19: extract_establishments_with_fei does not raise, and it returns no
\* establishment when its GET is answered with another status than 200 or
\* raises, when the scan it calls gets no document, and when the document
\* does not parse.
C19_ExtractNeverRaises ==
    (pc = "done" /\ fetches.extract # "none")
    => /\ ~raised
       /\ fetches.extract \in {"non200", "exception"} => extracted = <<>>
       /\ fetches.scan \in {"non200", "exception"} => extracted = <<>>
       /\ ~spl_doc.wellformed => extracted = <<>>

\* the GET of the extraction raised: the query ends without an establishment
\* of the document and with its rows
C19_Witness ==
    /\ pc = "done"
    /\ fetches.extract = "exception"
    /\ extracted = <<>>
    /\ ~raised
    /\ results # <<>>

-----------------------------------------------------------------------------
(* The row of a product without establishments *)

\* the facility fields of a row
FacilityFields ==
    {"establishment_name", "firm_name", "address_line_1", "city", "state", "country",
     "spl_quotes", "xml_location", "match_type"}

\* one row, of the product alone, marked 'no_establishments_found'
OnePlaceholderRow ==
    /\ Len(results) = 1
    /\ results[1].search_method = "no_establishments_found"
    /\ results[1].ndc = query
    /\ \A product \in product_info :
           /\ results[1].product_name = product.product_name
           /\ results[1].labeler_name = product.labeler_name
           /\ results[1].spl_id = product.spl_id
    /\ results[1].fei_number = None
    /\ results[1].duns_number = None
    /\ results[1].spl_operations = <<>>
    /\ \A field \in FacilityFields : results[1][field] = "None"

-----------------------------------------------------------------------------
(* The establishments assembled from the matches *)

\* the record the assembly looks up for a match, {} when there is none
ResolvedRecord(match, fei_db, duns_db) ==
    IF match.match_type = "FEI_NUMBER"
    THEN lookup_fei_establishment(fei_db, match.fei_number)
    ELSE lookup_duns_establishment(duns_db, match.fei_number)

\* the establishment is in the list: every field of the record looked up
IsExtracted(info) ==
    \E j \in 1..Len(extracted) :
        \A field \in DOMAIN info : extracted[j][field] = info[field]

\* C21 as stated: every matched identifier whose facility record resolves
\* yields an establishment, whether or not an <assignedEntity> block holds
\* the number and declares operations.
C21_MatchedNeverDropped ==
    (pc = "done" /\ fetches.extract = "200")
    => \A i \in 1..Len(scan_matches) :
           \A info \in ResolvedRecord(scan_matches[i], fei_database, duns_database) :
               IsExtracted(info)

-----------------------------------------------------------------------------
(* The operations of an establishment *)

\* the <assignedEntity> block the operations of a number are read from: the
\* first that holds the number
FirstSectionOf(number) ==
    spl_doc.entities[CHOOSE i \in 1..Len(spl_doc.entities) :
                         /\ NumberInSection(number, spl_doc.entities[i])
                         /\ \A j \in 1..(i - 1) :
                                ~NumberInSection(number, spl_doc.entities[j])]

\* the matches an establishment of the list was assembled from
MatchesOf(establishment) ==
    { match \in Range(scan_matches) :
          /\ \E i \in 1..Len(spl_doc.entities) :
                 NumberInSection(match.fei_number, spl_doc.entities[i])
          /\ \A info \in ResolvedRecord(match, fei_database, duns_database) :
                 \A field \in DOMAIN info : establishment[field] = info[field] }

\* the performance element declares the operation for the product asked for
DeclaresForTarget(perf, operation, target_ndc) ==
    /\ \E i \in 1..Len(OperationCodes) :
           OperationCodes[i][1] = perf.code /\ OperationCodes[i][2] = operation
    /\ \E k \in 1..Len(perf.ndcs) :
           normalize_ndc_for_matching(perf.ndcs[k])
               \cap normalize_ndc_for_matching(target_ndc) # {}

\* C22: every operation of an establishment taken by the NDC-specific pass is
\* declared by a <performance> element of its block that carries an NDC code
\* sharing a variant with the product's NDC; an element without an NDC code,
\* or with other products' codes only, adds nothing.
C22_OnlyOperationsOfTheNdc ==
    pc = "done"
    => \A j \in 1..Len(extracted) :
           extracted[j].quotes = "ndc_specific"
           => \A operation \in Range(extracted[j].operations) :
                  \E match \in MatchesOf(extracted[j]) :
                      \E product \in product_info :
                          LET section == FirstSectionOf(match.fei_number)
                          IN  \E k \in 1..Len(section.perfs) :
                                  DeclaresForTarget(section.perfs[k], operation,
                                                    product.ndc)

\* an establishment with the operations of the product, from a block that
\* also declares an operation for no product and one for another product
C22_Witness ==
    /\ pc = "done"
    /\ \E j \in 1..Len(extracted) :
           /\ extracted[j].quotes = "ndc_specific"
           /\ extracted[j].operations = <<"Manufacture", "Pack">>
           /\ \E match \in MatchesOf(extracted[j]) :
                  LET section == FirstSectionOf(match.fei_number)
                  IN  /\ \E k \in 1..Len(section.perfs) :
                             /\ section.perfs[k].code = "C25391"
                             /\ section.perfs[k].ndcs = <<>>
                      /\ \E k \in 1..Len(section.perfs) :
                             /\ section.perfs[k].code = "C84732"
                             /\ section.perfs[k].ndcs = <<OtherNdc>>

-----------------------------------------------------------------------------
(* Manufacture and API Manufacture *)

NotBothManufactures(operations) ==
    ~("Manufacture" \in Range(operations) /\ "API Manufacture" \in Range(operations))

\* the block declares both the manufacture and the API manufacture of the
\* product
DeclaresBothForTarget(section, target_ndc) ==
    /\ \E k \in 1..Len(section.perfs) :
           DeclaresForTarget(section.perfs[k], "Manufacture", target_ndc)
    /\ \E k \in 1..Len(section.perfs) :
           DeclaresForTarget(section.perfs[k], "API Manufacture", target_ndc)

\* C23: no list of operations holds both 'Manufacture' and 'API Manufacture':
\* not the list of the NDC-specific pass nor that of the general pass over any
\* block of the document, not the list of an establishment nor that of a row;
\* an establishment whose block declares both for the product has
\* 'API Manufacture' alone.
C23_ApiManufactureAlone ==
    pc = "done"
    => /\ \A i \in 1..Len(spl_doc.entities) :
              /\ NotBothManufactures(extract_general_operations(spl_doc.entities[i]))
              /\ \A product \in product_info :
                     NotBothManufactures(
                         extract_ndc_specific_operations(spl_doc.entities[i], product.ndc))
       /\ \A j \in 1..Len(extracted) : NotBothManufactures(extracted[j].operations)
       /\ \A i \in 1..Len(scan_matches) :
              \A product \in product_info :
                  (/\ \E k \in 1..Len(spl_doc.entities) :
                          NumberInSection(scan_matches[i].fei_number, spl_doc.entities[k])
                   /\ DeclaresBothForTarget(FirstSectionOf(scan_matches[i].fei_number),
                                            product.ndc))
                  => \E j \in 1..Len(extracted) :
                         /\ scan_matches[i] \in MatchesOf(extracted[j])
                         /\ "API Manufacture" \in Range(extracted[j].operations)
                         /\ "Manufacture" \notin Range(extracted[j].operations)
       /\ \A j \in 1..Len(results) : NotBothManufactures(results[j].spl_operations)

\* a row of an establishment whose block declares both for the product
C23_Witness ==
    /\ pc = "done"
    /\ \E j \in 1..Len(extracted) :
           /\ extracted[j].quotes = "ndc_specific"
           /\ \E match \in MatchesOf(extracted[j]) :
                  \E product \in product_info :
                      DeclaresBothForTarget(FirstSectionOf(match.fei_number), product.ndc)
           /\ j <= Len(results)
           /\ results[j].spl_operations = extracted[j].operations
           /\ "API Manufacture" \in Range(results[j].spl_operations)

-----------------------------------------------------------------------------
(* The identifiers the scan matches *)

\* C24 as stated: a match is recorded only for an extension of 7 to 15
\* digits.
C24_SevenToFifteenDigits ==
    pc = "done"
    => \A i \in 1..Len(scan_matches) : Len(scan_matches[i].fei_number) \in 7..15

-----------------------------------------------------------------------------
(* The kind of a match *)

\* some variant of the extension is a key of the dict
SomeVariantIn(extension, db) ==
    Range(generate_all_id_variants(extension)) \cap DOMAIN db # {}

\* the kind of the match of an extension, "none" when it matches nothing
KindOf(extension) ==
    IF SomeVariantIn(extension, fei_database) THEN "FEI_NUMBER"
    ELSE IF SomeVariantIn(extension, duns_database) THEN "DUNS_NUMBER"
    ELSE "none"

IsMatched(extension) == KindOf(extension) # "none"

\* the extension is one the pattern of the regex scan takes and has a match
IsRegexMatched(extension) ==
    AllDigits(extension) /\ Len(extension) \in 7..15 /\ IsMatched(extension)

\* C25: the matches of a document are, in document order, one match for each
\* id element with a variant in either dict and none for the others; the kind
\* is FEI_NUMBER when a variant is a key of the FEI dict, whatever the DUNS
\* dict holds, and DUNS_NUMBER only when no variant is a key of the FEI dict.
\* The regex scan over the same document does the same with the id elements
\* its pattern takes.
C25_FeiBeforeDuns ==
    /\ (pc = "done" /\ fetches.extract = "200" /\ fetches.scan = "200"
            /\ spl_doc.wellformed)
       => LET matched == SelectSeq(spl_doc.ids, IsMatched)
          IN  /\ Len(scan_matches) = Len(matched)
              /\ \A i \in 1..Len(matched) :
                     /\ scan_matches[i].fei_number = DigitsOnly(matched[i])
                     /\ scan_matches[i].match_type = KindOf(matched[i])
    /\ pc = "done"
       => LET matched == SelectSeq(spl_doc.ids, IsRegexMatched)
              regex_matches == find_matches_with_regex(spl_doc, fei_database, duns_database)
          IN  /\ Len(regex_matches) = Len(matched)
              /\ \A i \in 1..Len(matched) :
                     /\ regex_matches[i].fei_number = matched[i]
                     /\ regex_matches[i].match_type = KindOf(matched[i])

\* a document with an id that has variants in both dicts, matched as an FEI
\* number once, and an id that has variants in the DUNS dict only
C25_Witness ==
    /\ pc = "done"
    /\ \E i \in 1..Len(spl_doc.ids) :
           /\ SomeVariantIn(spl_doc.ids[i], fei_database)
           /\ SomeVariantIn(spl_doc.ids[i], duns_database)
    /\ \E i \in 1..Len(scan_matches) : scan_matches[i].match_type = "DUNS_NUMBER"
    /\ \E i \in 1..Len(scan_matches) : scan_matches[i].match_type = "FEI_NUMBER"
    /\ Len(scan_matches) = Len(spl_doc.ids)

-----------------------------------------------------------------------------
(* The variants of two products *)

\* C26 as stated: the variants of an all-digit 11-digit NDC share nothing
\* with the variants of an all-digit 11-digit NDC of other first nine digits.
C26_OtherProductsDisjoint ==
    (ndc_step = "expanded" /\ Len(ndc) = 11 /\ AllDigits(ndc))
    => \A other \in SeqsOfLen(NdcAlphabet, 11) :
           SubSeq(other, 1, 9) # SubSeq(ndc, 1, 9)
           => normalize_ndc_for_matching(other) \cap ndc_variants = {}

-----------------------------------------------------------------------------
(* The lookup of a match *)

\* the extensions of id elements: numbers of the registry as they are
\* written there, with other dashes, with blanks around, with leading zeros
\* up to sixteen digits, and numbers the registry does not have
ScanExtensions ==
    LookupIds
    \cup { <<"0","0","0","0","0","0","0","0","0","1","2","3","4","5","6","7">>,
           <<"1","-","2","3","4","5","6","7">>,
           <<" ","1","2","-","3","4","5","6","7"," ">>,
           <<"0","1","2","3","4","5","6","7">>,
           <<"1","2","-","3","4","5","-","6","7","8">>,
           <<"0","0","0","1","2","3","4","5","6","7","8">>,
           <<"9","9","9","9","9","9","9">> }

\* C27: whatever the load stored, a match the scan makes of an extension is
\* resolved by the lookup of its digits: an FEI_NUMBER match by
\* lookup_fei_establishment, a DUNS_NUMBER match by lookup_duns_establishment.
C27_MatchesResolve ==
    \A extension \in ScanExtensions :
        \A match \in Range(MatchOfExtension(extension, fei_database, duns_database)) :
            /\ match.fei_number = DigitsOnly(extension)
            /\ ResolvedRecord(match, fei_database, duns_database) # {}

\* a loaded registry in which the sixteen-digit extension is matched by a
\* shorter variant, its own digits being no key, and is resolved
C27_Witness ==
    /\ database_loaded
    /\ LET extension == <<"0","0","0","0","0","0","0","0","0","1","2","3","4","5","6","7">>
           found == MatchOfExtension(extension, fei_database, duns_database)
       IN  /\ extension \notin DOMAIN fei_database
           /\ found # <<>>
           /\ found[1].match_type = "FEI_NUMBER"
           /\ lookup_fei_establishment(fei_database, found[1].fei_number) # {}
    /\ LET extension == <<"1","2","-","3","4","5","-","6","7","8">>
           found == MatchOfExtension(extension, fei_database, duns_database)
       IN  /\ found # <<>>
           /\ found[1].match_type = "DUNS_NUMBER"
           /\ lookup_duns_establishment(duns_database, found[1].fei_number) # {}

-----------------------------------------------------------------------------
(* The row of the labeler *)

\* C28: a product with a label document id whose extraction yields no
\* establishment gets exactly one row, of match type 'LABELER', whatever the
\* GET of the labeler lookup answers; a row marked 'no_establishments_found'
\* is returned only for a product without a label document id.
C28_LabelerRowWithDocument ==
    pc = "done"
    => \A product \in product_info :
           /\ (product.spl_id # "" /\ extracted = <<>>)
              => /\ fetches.labeler \in FetchOutcomes
                 /\ Len(results) = 1
                 /\ results[1].match_type = "LABELER"
                 /\ results[1].spl_id = product.spl_id
           /\ (\E i \in 1..Len(results) :
                   results[i].search_method = "no_establishments_found")
              => product.spl_id = ""

\* the three GETs of the label document failed: the row is the labeler's,
\* under the name the product lookup gave
C28_Witness ==
    /\ pc = "done"
    /\ fetches = [extract |-> "exception", scan |-> "none", labeler |-> "exception"]
    /\ extracted = <<>>
    /\ Len(results) = 1
    /\ results[1].match_type = "LABELER"
    /\ results[1].search_method = "labeler_name_from_spl"
    /\ \E product \in product_info :
           /\ product.spl_id # ""
           /\ results[1].establishment_name = product.labeler_name

-----------------------------------------------------------------------------
(* The keywords of the general pass *)

\* the keywords of the displayName and the operation of each
OperationKeywords ==
    { OperationNames[i] : i \in { k \in 1..Len(OperationNames) :
                                     OperationNames[k][2] # "API Manufacture" } }

\* C29 as stated: a <businessOperation> whose displayName is, in any case of
\* letters, exactly a keyword is given the operation of that keyword.
C29_KeywordOwnOperation ==
    pc = "done"
    => \A i \in 1..Len(spl_doc.entities) :
           \A k \in 1..Len(spl_doc.entities[i].busops) :
               \A keyword \in OperationKeywords :
                   ToLower(spl_doc.entities[i].busops[k].display_name) = keyword[1]
                   => BusinessOperation(spl_doc.entities[i].busops[k]) = keyword[2]

-----------------------------------------------------------------------------
(* The NDCs that are refused *)

\* the number of digits of the input
DigitCount(s) == Len(SelectSeq(s, LAMBDA c : c \in Digit))

\* C30: validate_ndc_format accepts an input exactly when it holds 8 to 11
\* digits, whatever else it holds; the query of an input it refuses ends at
\* once, with no request to either service, no product and no row.
C30_RefusedWithoutRequest ==
    pc # "idle"
    => /\ validate_ndc_format(query) <=> DigitCount(query) \in 8..11
       /\ DigitCount(query) \notin 8..11
          => /\ pc = "done"
             /\ contacted = {}
             /\ product_info = {}
             /\ fetches = NoFetches
             /\ results = <<>>
             /\ ~raised

\* an input of twelve digits was refused
C30_Witness ==
    /\ pc = "done"
    /\ DigitCount(query) = 12
    /\ ~validate_ndc_format(query)
    /\ contacted = {}
    /\ results = <<>>

=========================================================================
